---- MODULE Spec2Model ----
(***************************************************************************)
(* Model of the segmentation-and-parallel-orchestration engine of          *)
(* Voicer_server: ASR/transcription_orchestrator.py,                       *)
(* ASR/long_audio_transcriber.py, ASR/subtitle_orchestrator.py and         *)
(* ASR/srt_utils.py.                                                       *)
(*                                                                         *)
(* The specifications share the variables:                                 *)
(*   Spec     one run of transcribe / generate_srt, from input validation  *)
(*            to the finally block, with the thread pool of                *)
(*            _run_parallel_transcription interleaved step by step;        *)
(*   SpecSeg  the subtitle segmenter _prepare_subtitle_segments applied to *)
(*            every waveform length and every VAD outcome of the bounds;   *)
(*   SpecLong the constructor and _prepare_audio_segments of the two       *)
(*            long-form classes, over backends of several maximum          *)
(*            durations;                                                   *)
(*   SpecSrt  build_srt_entries and the language vote on every list of     *)
(*            outcomes the dispatcher can hand over, complete or not;      *)
(*   SpecTime format_srt_time on sample counts at several sample rates;    *)
(*   SpecCompose  the composer of each class called twice in a row;        *)
(*   SpecChunks   _create_tmp_chunks on a segment list and an input name.  *)
(*   SpecSegSteps the subtitle segmenter executed one loop test at a time; *)
(*   SpecExample  the subtitle segmenter at two samples per second;        *)
(*   SpecDispatch _run_parallel_transcription alone, with fairness;        *)
(*   SpecRuns     several runs at once on one orchestrator;                *)
(*   SpecTimeline build_srt_entries on ordered segment lists.              *)
(* Sample positions are integers; texts are sequences of one-character     *)
(* strings so that join and strip are computed, not assumed.               *)
(***************************************************************************)
EXTENDS Integers, Sequences, FiniteSets, TLC

VARIABLES
    orch,            \* the orchestrator class the run belongs to
    input,           \* what input_file names: a file or a URL, present or not
    cleanup_tmp,     \* argument cleanup_tmp
    save_outputs,    \* argument save_outputs (generate_srt always saves)
    progress,        \* argument progress: "None" or "callable"
    num_threads,     \* self.num_threads
    max_duration_seconds,     \* asr_client.max_duration_seconds (self.client_max_duration_s)
    vad_segment_threshold_s,  \* constructor argument vad_segment_threshold_s (NoThreshold is None)
    vad_segment_threshold,    \* self.vad_segment_threshold
    vad_model,       \* self.vad_model: "None" or "loaded"
    pc,              \* position of the calling thread in transcribe / generate_srt
    exc,             \* exception in flight ("none" when there is none)
    wavLoaded,       \* load_audio has been called
    wavLen,          \* len(wav), in samples
    vadCalls,        \* number of process_vad invocations
    vad,             \* what process_vad did: "none", "raise" or a list of regions
    wav_list,        \* the segment list: sequence of <<start, end>>
    wav_path_list,   \* chunk paths returned by _create_tmp_chunks
    tmp_save_dir,    \* local tmp_save_dir of transcribe: "None" or the directory
    files,           \* chunk files present in the working directory
    chunksWritten,   \* number of chunk files save_audio_file has written
    dirExists,       \* the per-run working directory exists
    submitted,       \* number of executor.submit calls made
    queue,           \* work items submitted and not yet taken by a worker
    running,         \* chunk indices whose backend call is in flight
    finished,        \* futures done and not yet yielded by as_completed
    backend,         \* what the backend did for each chunk: "pending" or an outcome
    calls,           \* number of backend invocations per chunk
    results,         \* local list results: sequence of <<idx, text>>
    languages,       \* local list languages
    returned,        \* results as _run_parallel_transcription returned it
    composed,        \* the composed result ("none" before composition)
    outputWritten,   \* an output file has been written
    seconds,         \* argument of format_srt_time, as sample / sample_rate
    srt_time,        \* the string format_srt_time returned
    composed_again,  \* what a second call of the composer returned
    input_file,      \* argument input_file of _create_tmp_chunks
    chunk_data,      \* the sample range stored in each chunk file
    loop_end,        \* result and buffer when the refinement loop ends
    tail_flushed,    \* result after the tail flush, before the final pass
    WAV_SAMPLE_RATE, \* audio_tools.WAV_SAMPLE_RATE, samples per second (fixed in a behaviour)
    locals,          \* locals of _prepare_subtitle_segments while it runs step by step
    runs,            \* the concurrent runs on one orchestrator, each with its own locals
    tmp_dir          \* the files under self.tmp_dir that the concurrent runs share

vars == <<orch, input, cleanup_tmp, save_outputs, progress, num_threads, max_duration_seconds,
          vad_segment_threshold_s, vad_segment_threshold, vad_model, pc, exc, wavLoaded, wavLen,
          vadCalls, vad, wav_list, wav_path_list, tmp_save_dir, files, chunksWritten,
          dirExists, submitted, queue, running, finished, backend, calls, results,
          languages, returned, composed, outputWritten, seconds, srt_time, composed_again,
          input_file, chunk_data, loop_end, tail_flushed, WAV_SAMPLE_RATE, locals, runs,
          tmp_dir>>

(***************************************************************************)
(* Bounds of the model.                                                    *)
(***************************************************************************)
MaxChunks == 3        \* most chunks one run of Spec dispatches
MaxThreads == 2       \* largest num_threads
MaxWavLen == 10       \* longest waveform of SpecSeg, in samples
MaxRegions == 3       \* most regions in a VAD answer of SpecSeg
MaxRuns == 2          \* concurrent runs of SpecRuns
MaxRunChunks == 2     \* most chunks of one run of SpecRuns
ExampleSeconds == 8   \* length of the waveform of SpecExample, in seconds
ExampleRegions == 4   \* most regions in a VAD answer of SpecExample

(***************************************************************************)
(* Program constants.  The sample rate WAV_SAMPLE_RATE is a variable that  *)
(* every Init fixes and no action changes; it is scaled to one sample per  *)
(* second where whole seconds suffice, so that the second-valued           *)
(* parameters are sample counts.                                           *)
(***************************************************************************)
min_s == 2
max_s == 5
ShortInputCutoff == 180        \* LongAudioTranscriber: "超过3分钟的长音频才需要VAD"
DefaultVadThreshold == 120     \* LongAudioTranscriber: vad_segment_threshold_s: int = 120
client_max_duration_s == 6     \* asr_client.max_duration_seconds of the modelled backend

Min(a, b) == IF a < b THEN a ELSE b

(***************************************************************************)
(* Subtitle segmenter: SubtitleOrchestrator._prepare_subtitle_segments.    *)
(***************************************************************************)
max_samples == max_s * WAV_SAMPLE_RATE
min_samples == min_s * WAV_SAMPLE_RATE

\* Mutant: the loop stops before a last window shorter than max_samples.
RECURSIVE FallbackFullWindows(_, _)
FallbackFullWindows(start, total_samples) ==
    IF start + max_samples <= total_samples
    THEN << <<start, start + max_samples>> >>
             \o FallbackFullWindows(start + max_samples, total_samples)
    ELSE << >>

\* The fixed-window fallback loop (while start < total_samples).
RECURSIVE FallbackWindows(_, _)
FallbackWindows(start, total_samples) ==
    IF start < total_samples
    THEN LET end == Min(start + max_samples, total_samples)
         IN  (IF end - start > 0 THEN << <<start, end>> >> ELSE << >>)
             \o FallbackWindows(end, total_samples)
    ELSE << >>

\* Mutant: the loop also cuts a span of exactly max_samples, leaving an
\* empty remainder.
RECURSIVE FlushPiecesCutAtMax(_, _)
FlushPiecesCutAtMax(cur, end) ==
    IF (end - cur) >= max_samples
    THEN << <<cur, cur + max_samples>> >> \o FlushPiecesCutAtMax(cur + max_samples, end)
    ELSE << <<cur, end>> >>

\* The pieces flush_buffer appends for the span [start, end].
RECURSIVE FlushPieces(_, _)
FlushPieces(cur, end) ==
    IF (end - cur) > max_samples
    THEN << <<cur, cur + max_samples>> >> \o FlushPieces(cur + max_samples, end)
    ELSE << <<cur, end>> >>

flush_buffer(result, start, end) == result \o FlushPieces(start, end)

\* Mutant: the buffer absorbs the next region when that region is short,
\* whatever the buffer holds.
RECURSIVE MainPassMergesShortRegions(_, _, _, _, _)
MainPassMergesShortRegions(regions, i, result, buffer_start, buffer_end) ==
    IF i > Len(regions)
    THEN [result |-> result, buffer_start |-> buffer_start, buffer_end |-> buffer_end]
    ELSE LET seg_start == regions[i][1]
             seg_end == regions[i][2]
         IN  IF buffer_start = -1
             THEN MainPassMergesShortRegions(regions, i + 1, result, seg_start, seg_end)
             ELSE IF (seg_end - seg_start) < min_samples
                  THEN MainPassMergesShortRegions(regions, i + 1, result, buffer_start, seg_end)
                  ELSE MainPassMergesShortRegions(regions, i + 1,
                                                  flush_buffer(result, buffer_start, buffer_end),
                                                  seg_start, seg_end)

\* The left-to-right pass over base_segments from position i on; the state
\* of the loop is result and the buffer (buffer_start = -1 stands for None).
RECURSIVE MainPass(_, _, _, _, _)
MainPass(base_segments, i, result, buffer_start, buffer_end) ==
    IF i > Len(base_segments)
    THEN [result |-> result, buffer_start |-> buffer_start, buffer_end |-> buffer_end]
    ELSE LET seg_start == base_segments[i][1]
             seg_end == base_segments[i][2]
         IN  IF buffer_start = -1
             THEN MainPass(base_segments, i + 1, result, seg_start, seg_end)
             ELSE IF (buffer_end - buffer_start) < min_samples
                  THEN MainPass(base_segments, i + 1, result, buffer_start, seg_end)
                  ELSE MainPass(base_segments, i + 1,
                                flush_buffer(result, buffer_start, buffer_end),
                                seg_start, seg_end)

\* Mutant: the tail is merged backward whatever its length.
TailFlushAlwaysMerges(s) ==
    IF s.buffer_start # -1
    THEN IF Len(s.result) > 0
         THEN flush_buffer(SubSeq(s.result, 1, Len(s.result) - 1),
                           s.result[Len(s.result)][1], s.buffer_end)
         ELSE flush_buffer(s.result, s.buffer_start, s.buffer_end)
    ELSE s.result

\* Mutant: the short tail replaces the previous piece instead of being
\* merged with it.
TailFlushWithoutMerge(s) ==
    IF s.buffer_start # -1
    THEN IF (s.buffer_end - s.buffer_start) < min_samples /\ Len(s.result) > 0
         THEN flush_buffer(SubSeq(s.result, 1, Len(s.result) - 1), s.buffer_start, s.buffer_end)
         ELSE flush_buffer(s.result, s.buffer_start, s.buffer_end)
    ELSE s.result

\* "刷新剩余缓冲": the flush of the buffer left after the pass.
TailFlush(s) ==
    IF s.buffer_start # -1
    THEN IF (s.buffer_end - s.buffer_start) < min_samples /\ Len(s.result) > 0
         THEN LET prev == s.result[Len(s.result)]
                  popped == SubSeq(s.result, 1, Len(s.result) - 1)
              IN  flush_buffer(popped, prev[1], s.buffer_end)
         ELSE flush_buffer(s.result, s.buffer_start, s.buffer_end)
    ELSE s.result

\* Mutant: the final pass drops the short last piece.
FinalPassDropsTail(result) ==
    IF Len(result) >= 2 /\ (result[Len(result)][2] - result[Len(result)][1]) < min_samples
    THEN SubSeq(result, 1, Len(result) - 1)
    ELSE result

\* "最后一轮微调": result.pop() removes the last piece itself, so the span
\* that is re-split runs from the last piece's own start to its end.
FinalPass(result) ==
    IF Len(result) >= 2
    THEN LET last == result[Len(result)]
         IN  IF (last[2] - last[1]) < min_samples
             THEN LET prev == result[Len(result)]
                      popped == SubSeq(result, 1, Len(result) - 1)
                  IN  popped \o FlushPieces(prev[1], last[2])
             ELSE result
    ELSE result

\* vadOutcome is what process_vad did: it raised (caught, base_segments = [])
\* or it returned a list.
_prepare_subtitle_segments(total_samples, vadOutcome) ==
    LET base_segments == IF vadOutcome.kind = "raise" THEN << >> ELSE vadOutcome.regions
    IN  IF base_segments = << >>
        THEN FallbackWindows(0, total_samples)
        ELSE FinalPass(TailFlush(MainPass(base_segments, 1, << >>, -1, -1)))

(***************************************************************************)
(* The VAD is a black box (process_vad): it raises, returns an empty list, *)
(* or returns an ordered list of regions <<start, end>> with               *)
(* 0 <= start < end <= len(wav) and end[i] <= start[i+1].                  *)
(***************************************************************************)
VadRaise == [kind |-> "raise", regions |-> << >>]
VadList(r) == [kind |-> "list", regions |-> r]
VadNone == [kind |-> "none", regions |-> << >>]

\* Every ordered list of at most k regions inside [lo, total].
RECURSIVE RegionLists(_, _, _)
RegionLists(lo, total, k) ==
    IF k = 0 THEN { << >> }
    ELSE { << >> } \cup
         UNION { UNION { { << <<s, e>> >> \o rest : rest \in RegionLists(e, total, k - 1) }
                         : e \in (s + 1)..total }
                 : s \in lo..(total - 1) }

process_vad(total) ==
    {VadRaise} \cup { VadList(r) : r \in RegionLists(0, total, MaxRegions) }

(***************************************************************************)
(* Properties of a segment list.                                           *)
(***************************************************************************)
Contiguous(segs) == \A i \in 1..(Len(segs) - 1) : segs[i][2] = segs[i + 1][1]

Exhaustive(segs, total) ==
    /\ Len(segs) >= 1
    /\ segs[1][1] = 0
    /\ segs[Len(segs)][2] = total

(***************************************************************************)
(* The backend (BaseASR.transcribe) is a black box: for chunk idx it       *)
(* returns (language, text) or raises.  The text and the exception message *)
(* are fixed per chunk, so that a text found at the wrong place shows; the *)
(* language and whether the call fails are free.                           *)
(***************************************************************************)
Words == <<"a", "b", "c", "d", "e", "f">>
Languages == {"en", "zh"}

BackendText(idx) ==
    IF idx % 2 = 0 THEN <<Words[idx + 1]>> ELSE <<" ", Words[idx + 1], " ">>
BackendMessage(idx) == <<"boom", Words[idx + 1]>>

Pending == [kind |-> "pending", language |-> "", text |-> << >>]
Ok(language, text) == [kind |-> "ok", language |-> language, text |-> text]
Raised(message) == [kind |-> "raise", language |-> "", text |-> message]
BackendOutcomes(idx) ==
    { Ok(l, BackendText(idx)) : l \in Languages } \cup { Raised(BackendMessage(idx)) }

(***************************************************************************)
(* Python helpers used by the dispatcher and the composers.                *)
(***************************************************************************)
\* f"[ERROR: {e}]"
ErrorMarker(message) == <<"[ERROR: ">> \o message \o <<"]">>

\* " ".join(texts)
RECURSIVE Join(_)
Join(texts) ==
    IF texts = << >> THEN << >>
    ELSE IF Len(texts) = 1 THEN texts[1]
    ELSE texts[1] \o <<" ">> \o Join(Tail(texts))

\* str.strip()
RECURSIVE lstrip(_)
lstrip(text) ==
    IF text # << >> /\ Head(text) = " " THEN lstrip(Tail(text)) ELSE text
RECURSIVE rstrip(_)
rstrip(text) ==
    IF text # << >> /\ text[Len(text)] = " "
    THEN rstrip(SubSeq(text, 1, Len(text) - 1)) ELSE text
strip(text) == rstrip(lstrip(text))

\* Mutant: the list is reversed in place instead of sorted.
ReversedResults(raw) == [ k \in 1..Len(raw) |-> raw[Len(raw) + 1 - k] ]

\* list.sort(key=lambda x: x[0]): a stable sort on the index tag.
RECURSIVE InsertByIdx(_, _)
InsertByIdx(sorted, x) ==
    IF sorted = << >> THEN <<x>>
    ELSE IF sorted[Len(sorted)][1] <= x[1] THEN Append(sorted, x)
    ELSE Append(InsertByIdx(SubSeq(sorted, 1, Len(sorted) - 1), x), sorted[Len(sorted)])
RECURSIVE SortByIdx(_)
SortByIdx(raw) ==
    IF raw = << >> THEN << >>
    ELSE InsertByIdx(SortByIdx(SubSeq(raw, 1, Len(raw) - 1)), raw[Len(raw)])

\* Counter(languages).most_common(1)[0][0] if languages else "Unknown":
\* the first-inserted tag among those with the highest count.
CountOf(tag, tags) == Cardinality({ i \in 1..Len(tags) : tags[i] = tag })
\* Mutant: the vote is taken among the recognised languages; "Unknown"
\* wins only when no call succeeded.
MostCommonRecognized(tags) ==
    LET known == SelectSeq(tags, LAMBDA t : t # "Unknown")
    IN  IF known = << >> THEN "Unknown"
        ELSE LET best == CHOOSE i \in 1..Len(known) :
                           /\ \A j \in 1..Len(known) :
                                CountOf(known[j], known) <= CountOf(known[i], known)
                           /\ \A j \in 1..(i - 1) :
                                CountOf(known[j], known) < CountOf(known[i], known)
             IN  known[best]

MostCommon(tags) ==
    IF tags = << >> THEN "Unknown"
    ELSE LET best == CHOOSE i \in 1..Len(tags) :
                       /\ \A j \in 1..Len(tags) : CountOf(tags[j], tags) <= CountOf(tags[i], tags)
                       /\ \A j \in 1..(i - 1) : CountOf(tags[j], tags) < CountOf(tags[i], tags)
         IN  tags[best]

(***************************************************************************)
(* ASR/srt_utils.py                                                        *)
(***************************************************************************)
\* int(round(num / den)): Python rounds a half to the even neighbour.
RoundHalfEven(num, den) ==
    LET q == num \div den
        r == num % den
    IN  IF 2 * r < den THEN q
        ELSE IF 2 * r > den THEN q + 1
        ELSE IF q % 2 = 0 THEN q ELSE q + 1

\* format_srt_time(sample / sample_rate): the fields of HH:MM:SS,mmm.
format_srt_time(sample, sample_rate) ==
    LET total_ms == RoundHalfEven(sample * 1000, sample_rate)
    IN  [hours |-> total_ms \div (3600 * 1000),
         minutes |-> (total_ms % (3600 * 1000)) \div (60 * 1000),
         secs |-> (total_ms % (60 * 1000)) \div 1000,
         millis |-> total_ms % 1000]

\* Mutant: the milliseconds are truncated instead of rounded.
TruncatedMs(sample, sample_rate) ==
    { (sample \div sample_rate) * 1000 + ((sample % sample_rate) * 1000) \div sample_rate }

\* int(round(seconds * 1000)) for seconds = sample / sample_rate computed in
\* doubles: the nearest integer, and at an exact half either neighbour,
\* because the quotient sample / sample_rate is not exact in binary.  The
\* whole seconds are split off first to keep the products small.
RoundedMs(sample, sample_rate) ==
    LET whole == sample \div sample_rate
        rest == sample % sample_rate
        q == whole * 1000 + (rest * 1000) \div sample_rate
        r == (rest * 1000) % sample_rate
    IN  IF 2 * r < sample_rate THEN {q}
        ELSE IF 2 * r > sample_rate THEN {q + 1}
        ELSE {q, q + 1}

DigitChars == <<"0", "1", "2", "3", "4", "5", "6", "7", "8", "9">>

\* str(n) for n >= 0.
RECURSIVE Decimal(_)
Decimal(n) ==
    IF n < 10 THEN <<DigitChars[n + 1]>>
    ELSE Decimal(n \div 10) \o <<DigitChars[(n % 10) + 1]>>

\* f"{n:0{width}d}": zero-padded to at least width characters.
Pad(n, width) ==
    LET d == Decimal(n)
    IN  [ k \in 1..(IF Len(d) >= width THEN 0 ELSE width - Len(d)) |-> "0" ] \o d

\* The string format_srt_time builds from total_ms: HH:MM:SS,mmm.
SrtTimeString(total_ms) ==
    LET hours == total_ms \div (3600 * 1000)
        minutes == (total_ms % (3600 * 1000)) \div (60 * 1000)
        secs == (total_ms % (60 * 1000)) \div 1000
        millis == total_ms % 1000
    IN  Pad(hours, 2) \o <<":">> \o Pad(minutes, 2) \o <<":">> \o Pad(secs, 2)
            \o <<",">> \o Pad(millis, 3)

\* Mutant: one entry per outcome instead of one per segment.
build_srt_entries_per_outcome(segments, sorted_results, sample_rate) ==
    [ k \in 1..Min(Len(segments), Len(sorted_results)) |->
        [index |-> k,
         start |-> format_srt_time(segments[k][1], sample_rate),
         end |-> format_srt_time(segments[k][2], sample_rate),
         text |-> strip(sorted_results[k][2])] ]

\* Mutant: the end of an entry is its segment's last sample, not the
\* sample after it.
build_srt_entries_inclusive_end(segments, sorted_results, sample_rate) ==
    [ k \in 1..Len(segments) |->
        LET idx == k - 1
            text == IF idx < Len(sorted_results) THEN sorted_results[idx + 1][2] ELSE << >>
        IN  [index |-> idx + 1,
             start |-> format_srt_time(segments[k][1], sample_rate),
             end |-> format_srt_time(segments[k][2] - 1, sample_rate),
             text |-> strip(text)] ]

\* build_srt_entries after its sort: sorted_results is raw_results sorted.
build_srt_entries(segments, sorted_results, sample_rate) ==
    [ k \in 1..Len(segments) |->
        LET idx == k - 1
            text == IF idx < Len(sorted_results) THEN sorted_results[idx + 1][2] ELSE << >>
        IN  [index |-> idx + 1,
             start |-> format_srt_time(segments[k][1], sample_rate),
             end |-> format_srt_time(segments[k][2], sample_rate),
             text |-> strip(text)] ]

(***************************************************************************)
(* TranscriptionOrchestrator._compose_results / LongAudioTranscriber.      *)
(***************************************************************************)
_compose_results(sorted_results, langs) ==
    [kind |-> "text",
     language |-> MostCommon(langs),
     full_text |-> Join([ k \in 1..Len(sorted_results) |-> sorted_results[k][2] ]),
     entries |-> << >>]

\* The composed value of generate_srt: the entries written by save_srt and
\* the language it returns.
ComposeSrt(segments, sorted_results, langs) ==
    [kind |-> "srt",
     language |-> MostCommon(langs),
     full_text |-> << >>,
     entries |-> build_srt_entries(segments, sorted_results, WAV_SAMPLE_RATE)]

NotComposed == [kind |-> "none", language |-> "", full_text |-> << >>, entries |-> << >>]

\* Values of the variables a specification does not use.
NoSeconds == [sample |-> 0, sample_rate |-> 1]
NoInputFile == [dirname |-> << >>, stem |-> << >>, ext |-> << >>]
NoPass == [result |-> << >>, buffer_start |-> -1, buffer_end |-> -1]
NoLocals == [start |-> 0, i |-> 0, result |-> << >>, buffer_start |-> -1, buffer_end |-> -1,
             cur |-> 0, end |-> 0, ret |-> "none"]
NoRuns == << >>

(***************************************************************************)
(* Long-form segmenter: _prepare_audio_segments of                         *)
(* TranscriptionOrchestrator and LongAudioTranscriber.                     *)
(***************************************************************************)
Orchestrators == {"TranscriptionOrchestrator", "LongAudioTranscriber", "SubtitleOrchestrator"}
LongForm == {"TranscriptionOrchestrator", "LongAudioTranscriber"}

\* vad_segment_threshold_s = None, and the threshold of a class that has none.
NoThreshold == -1

\* Mutant: a requested threshold above the backend's maximum is kept.
__init__unclamped(o, client_max, requested) ==
    IF requested = NoThreshold
    THEN IF o = "TranscriptionOrchestrator"
         THEN (client_max * 9) \div 10
         ELSE IF o = "LongAudioTranscriber" THEN DefaultVadThreshold ELSE NoThreshold
    ELSE requested

\* self.vad_segment_threshold as __init__ leaves it.  int(x * 0.9) is the
\* floor of 9x/10 for the non-negative integers a duration can be.
__init__(o, client_max, requested) ==
    IF o = "TranscriptionOrchestrator"
    THEN IF requested = NoThreshold
         THEN (client_max * 9) \div 10
         ELSE IF requested > client_max THEN client_max ELSE requested
    ELSE IF o = "LongAudioTranscriber"
         THEN IF requested = NoThreshold THEN DefaultVadThreshold ELSE requested
         ELSE NoThreshold

\* Mutant: the cutover to the VAD excludes the cutoff itself.
NeedsVadAbove(o, total_samples) ==
    IF o = "TranscriptionOrchestrator"
    THEN total_samples > max_duration_seconds * WAV_SAMPLE_RATE
    ELSE total_samples > ShortInputCutoff * WAV_SAMPLE_RATE

\* The condition under which the long-form policy invokes the VAD.
NeedsVad(o, total_samples) ==
    IF o = "TranscriptionOrchestrator"
    THEN total_samples >= max_duration_seconds * WAV_SAMPLE_RATE
    ELSE total_samples >= ShortInputCutoff * WAV_SAMPLE_RATE

\* The list _prepare_audio_segments returns when process_vad did not raise.
_prepare_audio_segments(o, total_samples, vadOutcome) ==
    IF NeedsVad(o, total_samples)
    THEN vadOutcome.regions
    ELSE << <<0, total_samples>> >>

(***************************************************************************)
(* Inputs of a run of Spec.                                                *)
(***************************************************************************)
InputKinds == {"file", "missing_file", "url_200", "url_404", "url_unreachable"}
InputUsable(kind) == kind \in {"file", "url_200"}

IsUrl(kind) == kind \in {"url_200", "url_404", "url_unreachable"}

\* Mutant: the status code of the HEAD request is not looked at.
_validate_input_no_status(kind) ==
    IF IsUrl(kind)
    THEN IF kind = "url_unreachable" THEN "FileNotFoundError" ELSE "ok"
    ELSE IF kind = "missing_file" THEN "FileNotFoundError" ELSE "ok"

\* _validate_input: "ok" or the exception it raises.  For a URL, requests.head
\* raising and a status code >= 400 both end as FileNotFoundError.
_validate_input(kind) ==
    IF IsUrl(kind)
    THEN IF kind = "url_unreachable" THEN "FileNotFoundError"
         ELSE IF kind = "url_404" THEN "FileNotFoundError" ELSE "ok"
    ELSE IF kind = "missing_file" THEN "FileNotFoundError" ELSE "ok"

\* Waveform durations (seconds) and VAD answers a run of Spec draws from.
RunDurations == {0, 3, 7, ShortInputCutoff}
SplitInto(total, k) == [ i \in 1..k |-> <<((i - 1) * total) \div k, (i * total) \div k>> ]
RunVadOutcomes(total) ==
    {VadRaise, VadList(<< >>)} \cup
    { VadList(SplitInto(total, k)) : k \in { j \in 1..MaxChunks : j <= total } }

ChunkCount == Len(wav_list)
Chunks == 0..(ChunkCount - 1)
AllChunks == 0..MaxChunks

Init ==
    /\ WAV_SAMPLE_RATE = 1
    /\ orch \in Orchestrators
    /\ input \in InputKinds
    /\ cleanup_tmp \in BOOLEAN
    /\ save_outputs \in (IF orch = "SubtitleOrchestrator" THEN {TRUE} ELSE BOOLEAN)
    /\ progress \in (IF orch = "LongAudioTranscriber" THEN {"callable"} ELSE {"None", "callable"})
    /\ num_threads \in 1..MaxThreads
    /\ max_duration_seconds = client_max_duration_s
    /\ vad_segment_threshold_s = NoThreshold
    /\ vad_segment_threshold = __init__(orch, max_duration_seconds, vad_segment_threshold_s)
    /\ vad_model = "None"
    /\ pc = "start"
    /\ exc = "none"
    /\ wavLoaded = FALSE
    /\ wavLen = 0
    /\ vadCalls = 0
    /\ vad = VadNone
    /\ wav_list = << >>
    /\ wav_path_list = << >>
    /\ tmp_save_dir = "None"
    /\ files = {}
    /\ chunksWritten = 0
    /\ dirExists = FALSE
    /\ submitted = 0
    /\ queue = << >>
    /\ running = {}
    /\ finished = {}
    /\ backend = [ i \in AllChunks |-> Pending ]
    /\ calls = [ i \in AllChunks |-> 0 ]
    /\ results = << >>
    /\ languages = << >>
    /\ returned = << >>
    /\ composed = NotComposed
    /\ outputWritten = FALSE
    /\ seconds = NoSeconds
    /\ srt_time = << >>
    /\ composed_again = NotComposed
    /\ input_file = NoInputFile
    /\ chunk_data = << >>
    /\ loop_end = NoPass
    /\ tail_flushed = << >>
    /\ locals = NoLocals
    /\ runs = NoRuns
    /\ tmp_dir = {}

aux_vars == <<seconds, srt_time, composed_again, input_file, chunk_data, loop_end, tail_flushed,
                   WAV_SAMPLE_RATE, locals, runs, tmp_dir,
              WAV_SAMPLE_RATE, locals, runs, tmp_dir>>
run_args == <<orch, input, cleanup_tmp, save_outputs, progress, num_threads,
              max_duration_seconds, vad_segment_threshold_s, vad_segment_threshold, aux_vars>>
segmenter_vars == <<wavLoaded, wavLen, vadCalls, vad, vad_model, wav_list>>
chunk_vars == <<wav_path_list, tmp_save_dir, files, chunksWritten, dirExists>>
pool_vars == <<submitted, queue, running, finished, backend, calls>>
collect_vars == <<results, languages, returned>>

(***************************************************************************)
(* transcribe / generate_srt, statement by statement.                      *)
(***************************************************************************)
\* self._validate_input(input_file), before the try block.
Validate ==
    /\ pc = "start"
    /\ IF _validate_input(input) = "ok"
       THEN pc' = "prepare" /\ exc' = exc
       ELSE pc' = "raised" /\ exc' = _validate_input(input)
    /\ UNCHANGED <<run_args, segmenter_vars, chunk_vars, pool_vars, collect_vars,
                   composed, outputWritten>>

\* Mutant: the long-form policy swallows the exception of the VAD.
VadErrorSwallowed(o, v) == FALSE

\* An exception of process_vad leaves the segmenter: the long-form classes
\* call it outside any try block, the subtitle class catches it.
VadErrorPropagates(o, v) == o \in LongForm /\ v.kind = "raise"

\* The first progress call and the segmenter.  TranscriptionOrchestrator
\* calls progress(0.1, ...) unguarded; generate_srt tests "if progress:".
Prepare ==
    /\ pc = "prepare"
    /\ IF orch = "TranscriptionOrchestrator" /\ progress = "None"
       THEN /\ exc' = "TypeError"
            /\ pc' = "finally"
            /\ UNCHANGED segmenter_vars
       ELSE \E d \in RunDurations :
              LET total == d * WAV_SAMPLE_RATE
                  called == orch = "SubtitleOrchestrator" \/ NeedsVad(orch, total)
              IN  /\ wavLoaded' = TRUE
                  /\ wavLen' = total
                  /\ \E v \in (IF called THEN RunVadOutcomes(total) ELSE {VadNone}) :
                       LET segs == IF orch = "SubtitleOrchestrator"
                                   THEN _prepare_subtitle_segments(total, v)
                                   ELSE _prepare_audio_segments(orch, total, v)
                           propagates == VadErrorPropagates(orch, v)
                       IN  /\ vad' = v
                           /\ vadCalls' = IF called THEN vadCalls + 1 ELSE vadCalls
                           /\ vad_model' = IF called THEN "loaded" ELSE vad_model
                           /\ IF propagates
                              THEN /\ exc' = "VadError"
                                   /\ pc' = "finally"
                                   /\ wav_list' = wav_list
                              ELSE /\ Len(segs) <= MaxChunks
                                   /\ wav_list' = segs
                                   /\ exc' = exc
                                   /\ pc' = "materialize"
    /\ UNCHANGED <<run_args, chunk_vars, pool_vars, collect_vars, composed, outputWritten>>

\* _create_tmp_chunks.  save_audio_file writes the chunk file (creating the
\* working directory with it) or raises; when it raises at chunk failAt the
\* chunks before it are on disk and the assignment to tmp_save_dir in
\* transcribe never happens.
ChunkPath(idx) == <<"save_dir", idx>>

_create_tmp_chunks(failAt, dirMade) ==
    IF failAt = ChunkCount
    THEN /\ wav_path_list' = [ k \in 1..ChunkCount |-> ChunkPath(k - 1) ]
         /\ tmp_save_dir' = "save_dir"
         /\ files' = files \cup { ChunkPath(i) : i \in Chunks }
         /\ chunksWritten' = ChunkCount
         /\ dirExists' = (dirExists \/ ChunkCount > 0)
         /\ exc' = exc
         /\ pc' = "dispatch"
    ELSE /\ files' = files \cup { ChunkPath(i) : i \in 0..(failAt - 1) }
         /\ chunksWritten' = failAt
         /\ dirExists' = (dirExists \/ failAt > 0 \/ dirMade)
         /\ exc' = "OSError"
         /\ pc' = "finally"
         /\ UNCHANGED <<wav_path_list, tmp_save_dir>>

Materialize ==
    /\ pc = "materialize"
    /\ \E failAt \in 0..ChunkCount, dirMade \in BOOLEAN :
         /\ (failAt = ChunkCount \/ failAt > 0) => dirMade
         /\ _create_tmp_chunks(failAt, dirMade)
    /\ UNCHANGED <<run_args, segmenter_vars, pool_vars, collect_vars, composed, outputWritten>>

(***************************************************************************)
(* _run_parallel_transcription: the calling thread submits one work item   *)
(* per chunk, the workers of ThreadPoolExecutor(max_workers=num_threads)   *)
(* run them, and the calling thread collects the futures in the order      *)
(* as_completed yields them.                                               *)
(***************************************************************************)
\* executor.submit(self.asr_client.transcribe, wav_path, context): idx
Submit ==
    /\ pc = "dispatch"
    /\ submitted < ChunkCount
    /\ queue' = Append(queue, submitted)
    /\ submitted' = submitted + 1
    /\ UNCHANGED <<run_args, pc, exc, segmenter_vars, chunk_vars, running, finished,
                   backend, calls, collect_vars, composed, outputWritten>>

\* Mutant: a pool that starts a thread for every work item.
PoolUnbounded == TRUE

\* The pool runs at most max_workers work items at a time.
PoolHasIdleWorker == Cardinality(running) < num_threads

\* A worker takes the oldest work item and enters asr_client.transcribe.
StartCall ==
    /\ queue # << >>
    /\ PoolHasIdleWorker
    /\ running' = running \cup {Head(queue)}
    /\ queue' = Tail(queue)
    /\ calls' = [calls EXCEPT ![Head(queue)] = @ + 1]
    /\ UNCHANGED <<run_args, pc, exc, segmenter_vars, chunk_vars, submitted, finished,
                   backend, collect_vars, composed, outputWritten>>

\* Mutant: a call that raised is put back on the queue once.
FinishCallRetry(idx) ==
    /\ idx \in running
    /\ \E outcome \in BackendOutcomes(idx) :
         /\ backend' = [backend EXCEPT ![idx] = outcome]
         /\ IF outcome.kind = "raise" /\ calls[idx] < 2
            THEN queue' = Append(queue, idx) /\ finished' = finished
            ELSE queue' = queue /\ finished' = finished \cup {idx}
    /\ running' = running \ {idx}
    /\ UNCHANGED <<run_args, pc, exc, segmenter_vars, chunk_vars, submitted,
                   calls, collect_vars, composed, outputWritten>>

\* Mutant: a call that raises takes its worker thread with it; the future
\* is done and the worker never takes another work item.
FinishCallWorkerDies(idx) ==
    /\ idx \in running
    /\ \E outcome \in BackendOutcomes(idx) :
         /\ backend' = [backend EXCEPT ![idx] = outcome]
         /\ running' = IF outcome.kind = "raise" THEN running ELSE running \ {idx}
    /\ idx \notin finished
    /\ finished' = finished \cup {idx}
    /\ UNCHANGED <<run_args, pc, exc, segmenter_vars, chunk_vars, submitted, queue,
                   calls, collect_vars, composed, outputWritten>>

\* asr_client.transcribe returns or raises; the future becomes done.
FinishCall(idx) ==
    /\ idx \in running
    /\ \E outcome \in BackendOutcomes(idx) : backend' = [backend EXCEPT ![idx] = outcome]
    /\ running' = running \ {idx}
    /\ finished' = finished \cup {idx}
    /\ UNCHANGED <<run_args, pc, exc, segmenter_vars, chunk_vars, submitted, queue,
                   calls, collect_vars, composed, outputWritten>>

\* Mutant: the except branch records the error marker and no language.
CollectOutcomeNoUnknown(idx) ==
    IF backend[idx].kind = "ok"
    THEN /\ results' = Append(results, <<idx, backend[idx].text>>)
         /\ languages' = Append(languages, backend[idx].language)
    ELSE /\ results' = Append(results, <<idx, ErrorMarker(backend[idx].text)>>)
         /\ languages' = languages

\* The body of "for future in as_completed(future_dict)" for the future of
\* chunk idx: future.result() returns (language, text) or re-raises.
CollectOutcome(idx) ==
    IF backend[idx].kind = "ok"
    THEN /\ results' = Append(results, <<idx, backend[idx].text>>)
         /\ languages' = Append(languages, backend[idx].language)
    ELSE /\ results' = Append(results, <<idx, ErrorMarker(backend[idx].text)>>)
         /\ languages' = Append(languages, "Unknown")

\* Mutant: no try/except around future.result(): a failed call's exception
\* leaves the loop and the run.
CollectUnguarded(idx) ==
    /\ pc = "dispatch"
    /\ submitted = ChunkCount
    /\ idx \in finished
    /\ finished' = finished \ {idx}
    /\ IF backend[idx].kind = "ok"
       THEN CollectOutcome(idx) /\ UNCHANGED <<pc, exc>>
       ELSE pc' = "finally" /\ exc' = "BackendError" /\ UNCHANGED <<results, languages>>
    /\ UNCHANGED <<run_args, segmenter_vars, chunk_vars, submitted, queue,
                   running, backend, calls, returned, composed, outputWritten>>

Collect(idx) ==
    /\ pc = "dispatch"
    /\ submitted = ChunkCount
    /\ idx \in finished
    /\ finished' = finished \ {idx}
    /\ CollectOutcome(idx)
    /\ UNCHANGED <<run_args, pc, exc, segmenter_vars, chunk_vars, submitted, queue,
                   running, backend, calls, returned, composed, outputWritten>>

\* as_completed is exhausted, the executor shuts down, and
\* "return results, languages" hands the lists on as they are.
ReturnedResults == results

\* Mutant: the executor is shut down without waiting (shutdown(wait=False))
\* and the lists are returned as soon as every work item is submitted.
DispatchReturnWithoutWaiting ==
    /\ pc = "dispatch"
    /\ submitted = ChunkCount
    /\ returned' = ReturnedResults
    /\ pc' = "compose"
    /\ UNCHANGED <<run_args, exc, segmenter_vars, chunk_vars, pool_vars, results,
                   languages, composed, outputWritten>>

DispatchReturn ==
    /\ pc = "dispatch"
    /\ submitted = ChunkCount
    /\ Len(results) = ChunkCount
    /\ returned' = ReturnedResults
    /\ pc' = "compose"
    /\ UNCHANGED <<run_args, exc, segmenter_vars, chunk_vars, pool_vars, results,
                   languages, composed, outputWritten>>

\* Mutant: the composer without its sort.
UnsortedResults == results

\* raw_results.sort(key=lambda x: x[0]), in place, as the first statement of
\* _compose_results and of build_srt_entries.
SortedResults == SortByIdx(results)

\* _compose_results (long form), or build_srt_entries and the language vote
\* of generate_srt.
Compose ==
    /\ pc = "compose"
    /\ results' = SortedResults
    /\ composed' = IF orch = "SubtitleOrchestrator"
                   THEN ComposeSrt(wav_list, SortedResults, languages)
                   ELSE _compose_results(SortedResults, languages)
    /\ pc' = "save"
    /\ UNCHANGED <<run_args, exc, segmenter_vars, chunk_vars, pool_vars, languages,
                   returned, outputWritten>>

\* _save_results (when save_outputs) or save_srt: the file is written, or
\* makedirs / open / write raises.
Save ==
    /\ pc = "save"
    /\ IF save_outputs
       THEN \E written \in BOOLEAN :
              /\ outputWritten' = written
              /\ exc' = IF written THEN exc ELSE "OSError"
       ELSE UNCHANGED <<outputWritten, exc>>
    /\ pc' = "finally"
    /\ UNCHANGED <<run_args, segmenter_vars, chunk_vars, pool_vars, collect_vars, composed>>

\* Mutant: cleanup at the end of the try body instead of in finally.
CleanupOnSuccessOnly ==
    /\ pc = "finally"
    /\ IF cleanup_tmp /\ tmp_save_dir # "None" /\ dirExists /\ exc = "none"
       THEN files' = {} /\ dirExists' = FALSE
       ELSE UNCHANGED <<files, dirExists>>
    /\ pc' = IF exc = "none" THEN "returned" ELSE "raised"
    /\ UNCHANGED <<run_args, exc, segmenter_vars, wav_path_list, tmp_save_dir,
                   chunksWritten, pool_vars, collect_vars, composed, outputWritten>>

\* finally: if cleanup_tmp and tmp_save_dir: rmtree when the directory exists.
\* Then the run returns, or the exception in flight propagates.
Finally ==
    /\ pc = "finally"
    /\ IF cleanup_tmp /\ tmp_save_dir # "None" /\ dirExists
       THEN files' = {} /\ dirExists' = FALSE
       ELSE UNCHANGED <<files, dirExists>>
    /\ pc' = IF exc = "none" THEN "returned" ELSE "raised"
    /\ UNCHANGED <<run_args, exc, segmenter_vars, wav_path_list, tmp_save_dir,
                   chunksWritten, pool_vars, collect_vars, composed, outputWritten>>

Next ==
    \/ Validate
    \/ Prepare
    \/ Materialize
    \/ Submit
    \/ StartCall
    \/ \E idx \in AllChunks : FinishCall(idx)
    \/ \E idx \in AllChunks : Collect(idx)
    \/ DispatchReturn
    \/ Compose
    \/ Save
    \/ Finally

Spec == Init /\ [][Next]_vars

(***************************************************************************)
(* SpecSeg: _prepare_subtitle_segments on every waveform of at most        *)
(* MaxWavLen samples and every VAD outcome of at most MaxRegions regions.  *)
(***************************************************************************)
InitSeg ==
    /\ WAV_SAMPLE_RATE = 1
    /\ orch = "SubtitleOrchestrator"
    /\ input = "file"
    /\ cleanup_tmp = TRUE
    /\ save_outputs = TRUE
    /\ progress = "None"
    /\ num_threads = 1
    /\ max_duration_seconds = client_max_duration_s
    /\ vad_segment_threshold_s = NoThreshold
    /\ vad_segment_threshold = NoThreshold
    /\ vad_model = "loaded"
    /\ pc = "segment"
    /\ exc = "none"
    /\ wavLoaded = TRUE
    /\ wavLen \in 0..MaxWavLen
    /\ vadCalls = 1
    /\ vad \in process_vad(wavLen)
    /\ wav_list = << >>
    /\ wav_path_list = << >>
    /\ tmp_save_dir = "None"
    /\ files = {}
    /\ chunksWritten = 0
    /\ dirExists = FALSE
    /\ submitted = 0
    /\ queue = << >>
    /\ running = {}
    /\ finished = {}
    /\ backend = [ i \in AllChunks |-> Pending ]
    /\ calls = [ i \in AllChunks |-> 0 ]
    /\ results = << >>
    /\ languages = << >>
    /\ returned = << >>
    /\ composed = NotComposed
    /\ outputWritten = FALSE
    /\ seconds = NoSeconds
    /\ srt_time = << >>
    /\ composed_again = NotComposed
    /\ input_file = NoInputFile
    /\ chunk_data = << >>
    /\ loop_end = NoPass
    /\ tail_flushed = << >>
    /\ locals = NoLocals
    /\ runs = NoRuns
    /\ tmp_dir = {}

\* loop_end and tail_flushed keep the locals of the refinement as they are
\* when the loop ends and when the tail flush is done.
Segment ==
    /\ pc = "segment"
    /\ wav_list' = _prepare_subtitle_segments(wavLen, vad)
    /\ IF vad.kind = "list" /\ vad.regions # << >>
       THEN /\ loop_end' = MainPass(vad.regions, 1, << >>, -1, -1)
            /\ tail_flushed' = TailFlush(MainPass(vad.regions, 1, << >>, -1, -1))
       ELSE UNCHANGED <<loop_end, tail_flushed>>
    /\ pc' = "segmented"
    /\ UNCHANGED <<orch, input, cleanup_tmp, save_outputs, progress, num_threads,
                   max_duration_seconds, vad_segment_threshold_s, vad_segment_threshold,
                   seconds, srt_time, composed_again, input_file, chunk_data,
                   WAV_SAMPLE_RATE, locals, runs, tmp_dir,
                   exc, wavLoaded, wavLen, vadCalls, vad, vad_model, chunk_vars,
                   pool_vars, collect_vars, composed, outputWritten>>

NextSeg == Segment

SpecSeg == InitSeg /\ [][NextSeg]_vars

(***************************************************************************)
(* SpecLong: TranscriptionOrchestrator.__init__ / LongAudioTranscriber     *)
(* .__init__ followed by _prepare_audio_segments, for backends of several  *)
(* maximum durations, requested thresholds and waveform durations.  The    *)
(* VAD answers with an exception, an empty list, or a contiguous list cut  *)
(* at multiples of a minute whose regions respect the maximum it was       *)
(* given.                                                                  *)
(***************************************************************************)
HardMaxes == {60, 65, 120, ShortInputCutoff, 200}
Requests == {NoThreshold, 0, 54, 60, 150, 250}
LongDurations == {0, 59, 60, 100, 179, 180, 181, 250}
LongCuts == {60, 120, 180, 240}

\* max_segment_threshold_s when the caller passes none.
NoMax == -1

\* The max_segment_threshold_s the class hands to process_vad.
MaxGiven(o) == IF o = "TranscriptionOrchestrator" THEN max_duration_seconds ELSE NoMax

RECURSIVE CutRegions(_, _, _)
CutRegions(lo, cuts, total) ==
    IF cuts = {}
    THEN << <<lo, total>> >>
    ELSE LET c == CHOOSE x \in cuts : \A y \in cuts : x <= y
         IN  << <<lo, c>> >> \o CutRegions(c, cuts \ {c}, total)

HonoursMax(regions, max_segment_threshold_s) ==
    \/ max_segment_threshold_s = NoMax
    \/ \A i \in 1..Len(regions) :
          regions[i][2] - regions[i][1] <= max_segment_threshold_s * WAV_SAMPLE_RATE

process_vad_long(total, max_segment_threshold_s) ==
    {VadRaise, VadList(<< >>)} \cup
    { VadList(r) : r \in { x \in { CutRegions(0, cuts, total) :
                                      cuts \in SUBSET { c \in LongCuts : c * WAV_SAMPLE_RATE < total } } :
                            total > 0 /\ HonoursMax(x, max_segment_threshold_s) } }

InitLong ==
    /\ WAV_SAMPLE_RATE = 1
    /\ orch \in LongForm
    /\ input = "file"
    /\ cleanup_tmp = TRUE
    /\ save_outputs = TRUE
    /\ progress = "callable"
    /\ num_threads = 1
    /\ max_duration_seconds \in HardMaxes
    /\ vad_segment_threshold_s \in Requests
    /\ vad_segment_threshold = NoThreshold
    /\ vad_model = "None"
    /\ pc = "construct"
    /\ exc = "none"
    /\ wavLoaded = FALSE
    /\ wavLen \in { d * WAV_SAMPLE_RATE : d \in LongDurations }
    /\ vadCalls = 0
    /\ vad = VadNone
    /\ wav_list = << >>
    /\ wav_path_list = << >>
    /\ tmp_save_dir = "None"
    /\ files = {}
    /\ chunksWritten = 0
    /\ dirExists = FALSE
    /\ submitted = 0
    /\ queue = << >>
    /\ running = {}
    /\ finished = {}
    /\ backend = [ i \in AllChunks |-> Pending ]
    /\ calls = [ i \in AllChunks |-> 0 ]
    /\ results = << >>
    /\ languages = << >>
    /\ returned = << >>
    /\ composed = NotComposed
    /\ outputWritten = FALSE
    /\ seconds = NoSeconds
    /\ srt_time = << >>
    /\ composed_again = NotComposed
    /\ input_file = NoInputFile
    /\ chunk_data = << >>
    /\ loop_end = NoPass
    /\ tail_flushed = << >>
    /\ locals = NoLocals
    /\ runs = NoRuns
    /\ tmp_dir = {}

\* __init__: the stored threshold is derived from the backend's maximum.
Construct ==
    /\ pc = "construct"
    /\ vad_segment_threshold' = __init__(orch, max_duration_seconds, vad_segment_threshold_s)
    /\ pc' = "constructed"
    /\ UNCHANGED <<orch, input, cleanup_tmp, save_outputs, progress, num_threads, aux_vars,
                   max_duration_seconds, vad_segment_threshold_s, vad_model, exc,
                   wavLoaded, wavLen, vadCalls, vad, wav_list, chunk_vars, pool_vars,
                   collect_vars, composed, outputWritten>>

\* _prepare_audio_segments: load_audio, then the VAD or the single segment.
\* An exception of process_vad propagates.
SegmentLong ==
    /\ pc = "constructed"
    /\ wavLoaded' = TRUE
    /\ LET called == NeedsVad(orch, wavLen)
       IN  /\ vadCalls' = IF called THEN vadCalls + 1 ELSE vadCalls
           /\ vad_model' = IF called THEN "loaded" ELSE vad_model
           /\ \E v \in (IF called THEN process_vad_long(wavLen, MaxGiven(orch)) ELSE {VadNone}) :
                /\ vad' = v
                /\ IF v.kind = "raise"
                   THEN /\ exc' = "VadError"
                        /\ pc' = "segmenter_raised"
                        /\ wav_list' = wav_list
                   ELSE /\ wav_list' = _prepare_audio_segments(orch, wavLen, v)
                        /\ exc' = exc
                        /\ pc' = "segmented"
    /\ UNCHANGED <<run_args, wavLen, chunk_vars, pool_vars, collect_vars, composed,
                   outputWritten>>

NextLong ==
    \/ Construct
    \/ SegmentLong

SpecLong == InitLong /\ [][NextLong]_vars

(***************************************************************************)
(* SpecSrt: the composition step of generate_srt (build_srt_entries and    *)
(* the language vote) on a segment list and any list of outcomes with      *)
(* distinct index tags below len(wav_list), in any order, complete or not. *)
(***************************************************************************)
SrtLengths == {0, 3, 7, 12}

\* What _run_parallel_transcription records for chunk idx: the backend's
\* text, or the error marker.
SrtOutcomeTexts(idx) == {BackendText(idx), ErrorMarker(BackendMessage(idx))}

\* Every list of outcomes <<idx, text>> with distinct tags drawn from tags.
RECURSIVE OutcomeLists(_)
OutcomeLists(tags) ==
    { << >> } \cup
    UNION { UNION { { << <<t, x>> >> \o rest : rest \in OutcomeLists(tags \ {t}) }
                    : x \in SrtOutcomeTexts(t) }
            : t \in tags }

\* The language recorded next to an outcome.
SrtLanguageOf(outcome) ==
    IF outcome[2] = BackendText(outcome[1]) THEN "zh" ELSE "Unknown"

InitSrt ==
    /\ WAV_SAMPLE_RATE = 1
    /\ orch = "SubtitleOrchestrator"
    /\ input = "file"
    /\ cleanup_tmp = TRUE
    /\ save_outputs = TRUE
    /\ progress = "None"
    /\ num_threads = 1
    /\ max_duration_seconds = client_max_duration_s
    /\ vad_segment_threshold_s = NoThreshold
    /\ vad_segment_threshold = NoThreshold
    /\ vad_model = "loaded"
    /\ pc = "build_srt"
    /\ exc = "none"
    /\ wavLoaded = TRUE
    /\ wavLen \in SrtLengths
    /\ vadCalls = 1
    /\ vad = VadRaise
    /\ wav_list = FallbackWindows(0, wavLen)
    /\ wav_path_list = << >>
    /\ tmp_save_dir = "None"
    /\ files = {}
    /\ chunksWritten = 0
    /\ dirExists = FALSE
    /\ submitted = 0
    /\ queue = << >>
    /\ running = {}
    /\ finished = {}
    /\ backend = [ i \in AllChunks |-> Pending ]
    /\ calls = [ i \in AllChunks |-> 0 ]
    /\ results \in OutcomeLists(0..(Len(wav_list) - 1))
    /\ languages = [ k \in 1..Len(results) |-> SrtLanguageOf(results[k]) ]
    /\ returned = results
    /\ composed = NotComposed
    /\ outputWritten = FALSE
    /\ seconds = NoSeconds
    /\ srt_time = << >>
    /\ composed_again = NotComposed
    /\ input_file = NoInputFile
    /\ chunk_data = << >>
    /\ loop_end = NoPass
    /\ tail_flushed = << >>
    /\ locals = NoLocals
    /\ runs = NoRuns
    /\ tmp_dir = {}

\* srt_entries = build_srt_entries(wav_list, raw_results, WAV_SAMPLE_RATE),
\* which sorts raw_results in place, and the language vote.
BuildSrt ==
    /\ pc = "build_srt"
    /\ results' = SortByIdx(results)
    /\ composed' = ComposeSrt(wav_list, SortByIdx(results), languages)
    /\ pc' = "built"
    /\ UNCHANGED <<run_args, exc, segmenter_vars, chunk_vars, pool_vars, languages,
                   returned, outputWritten>>

NextSrt == BuildSrt

SpecSrt == InitSrt /\ [][NextSrt]_vars

(***************************************************************************)
(* SpecTime: format_srt_time on sample / sample_rate seconds, for sample   *)
(* counts around the field boundaries and up to 359999.999 s.              *)
(***************************************************************************)
MaxTimeSample == 40
TimeRates == {1, 3, 2000}
TimeMarks == {59, 60, 3599, 3600, 35999, 359999}

TimeSamples(rate) ==
    { x \in (0..MaxTimeSample)
             \cup { k * rate + d : k \in TimeMarks, d \in {-8, -1, 0, 1, 8} }
             \cup { 359999 * rate + (999 * rate) \div 1000 } :
        x >= 0 /\ x <= 359999 * rate + (999 * rate) \div 1000 }

InitTime ==
    /\ WAV_SAMPLE_RATE = 1
    /\ orch = "SubtitleOrchestrator"
    /\ input = "file"
    /\ cleanup_tmp = TRUE
    /\ save_outputs = TRUE
    /\ progress = "None"
    /\ num_threads = 1
    /\ max_duration_seconds = client_max_duration_s
    /\ vad_segment_threshold_s = NoThreshold
    /\ vad_segment_threshold = NoThreshold
    /\ vad_model = "None"
    /\ pc = "format"
    /\ exc = "none"
    /\ wavLoaded = FALSE
    /\ wavLen = 0
    /\ vadCalls = 0
    /\ vad = VadNone
    /\ wav_list = << >>
    /\ wav_path_list = << >>
    /\ tmp_save_dir = "None"
    /\ files = {}
    /\ chunksWritten = 0
    /\ dirExists = FALSE
    /\ submitted = 0
    /\ queue = << >>
    /\ running = {}
    /\ finished = {}
    /\ backend = [ i \in AllChunks |-> Pending ]
    /\ calls = [ i \in AllChunks |-> 0 ]
    /\ results = << >>
    /\ languages = << >>
    /\ returned = << >>
    /\ composed = NotComposed
    /\ outputWritten = FALSE
    /\ \E rate \in TimeRates : \E x \in TimeSamples(rate) :
          seconds = [sample |-> x, sample_rate |-> rate]
    /\ srt_time = << >>
    /\ composed_again = NotComposed
    /\ input_file = NoInputFile
    /\ chunk_data = << >>
    /\ loop_end = NoPass
    /\ tail_flushed = << >>
    /\ locals = NoLocals
    /\ runs = NoRuns
    /\ tmp_dir = {}

\* format_srt_time(sample / sample_rate).
FormatTime ==
    /\ pc = "format"
    /\ \E total_ms \in RoundedMs(seconds.sample, seconds.sample_rate) :
         srt_time' = SrtTimeString(total_ms)
    /\ pc' = "formatted"
    /\ UNCHANGED <<orch, input, cleanup_tmp, save_outputs, progress, num_threads,
                   max_duration_seconds, vad_segment_threshold_s, vad_segment_threshold,
                   seconds, composed_again, input_file, chunk_data, loop_end, tail_flushed,
                   WAV_SAMPLE_RATE, locals, runs, tmp_dir,
                   exc, segmenter_vars, chunk_vars, pool_vars, collect_vars, composed,
                   outputWritten>>

NextTime == FormatTime

SpecTime == InitTime /\ [][NextTime]_vars

(***************************************************************************)
(* SpecCompose: the composer of each class (_compose_results, or           *)
(* build_srt_entries with the language vote) called twice in a row on the  *)
(* same list objects.                                                      *)
(***************************************************************************)
InitCompose ==
    /\ WAV_SAMPLE_RATE = 1
    /\ orch \in Orchestrators
    /\ input = "file"
    /\ cleanup_tmp = TRUE
    /\ save_outputs = TRUE
    /\ progress = "None"
    /\ num_threads = 1
    /\ max_duration_seconds = client_max_duration_s
    /\ vad_segment_threshold_s = NoThreshold
    /\ vad_segment_threshold = NoThreshold
    /\ vad_model = "loaded"
    /\ pc = "compose_first"
    /\ exc = "none"
    /\ wavLoaded = TRUE
    /\ wavLen \in SrtLengths
    /\ vadCalls = 1
    /\ vad = VadRaise
    /\ wav_list = FallbackWindows(0, wavLen)
    /\ wav_path_list = << >>
    /\ tmp_save_dir = "None"
    /\ files = {}
    /\ chunksWritten = 0
    /\ dirExists = FALSE
    /\ submitted = 0
    /\ queue = << >>
    /\ running = {}
    /\ finished = {}
    /\ backend = [ i \in AllChunks |-> Pending ]
    /\ calls = [ i \in AllChunks |-> 0 ]
    /\ results \in OutcomeLists(0..(Len(wav_list) - 1))
    /\ languages = [ k \in 1..Len(results) |-> SrtLanguageOf(results[k]) ]
    /\ returned = results
    /\ composed = NotComposed
    /\ outputWritten = FALSE
    /\ seconds = NoSeconds
    /\ srt_time = << >>
    /\ composed_again = NotComposed
    /\ input_file = NoInputFile
    /\ chunk_data = << >>
    /\ loop_end = NoPass
    /\ tail_flushed = << >>
    /\ locals = NoLocals
    /\ runs = NoRuns
    /\ tmp_dir = {}

\* What one call of the composer returns, raw_results already sorted by it.
ComposerOf(o, segments, sorted_results, langs) ==
    IF o = "SubtitleOrchestrator"
    THEN ComposeSrt(segments, sorted_results, langs)
    ELSE _compose_results(sorted_results, langs)

\* The first call: raw_results is sorted in place and the result returned.
ComposeFirst ==
    /\ pc = "compose_first"
    /\ results' = SortByIdx(results)
    /\ composed' = ComposerOf(orch, wav_list, SortByIdx(results), languages)
    /\ pc' = "compose_second"
    /\ UNCHANGED <<run_args, exc, segmenter_vars, chunk_vars, pool_vars, languages,
                   returned, outputWritten>>

\* The second call, on the list the first call left behind.
ComposeSecond ==
    /\ pc = "compose_second"
    /\ results' = SortByIdx(results)
    /\ composed_again' = ComposerOf(orch, wav_list, SortByIdx(results), languages)
    /\ pc' = "composed_twice"
    /\ UNCHANGED <<orch, input, cleanup_tmp, save_outputs, progress, num_threads,
                   max_duration_seconds, vad_segment_threshold_s, vad_segment_threshold,
                   seconds, srt_time, input_file, chunk_data, loop_end, tail_flushed,
                   WAV_SAMPLE_RATE, locals, runs, tmp_dir,
                   exc, segmenter_vars, chunk_vars, pool_vars, languages, returned,
                   composed, outputWritten>>

NextCompose ==
    \/ ComposeFirst
    \/ ComposeSecond

SpecCompose == InitCompose /\ [][NextCompose]_vars

(***************************************************************************)
(* SpecChunks: _create_tmp_chunks on a segment list and an input name.  A  *)
(* name is kept as its directory part, its stem and its extension, which   *)
(* is what os.path.basename and os.path.splitext take apart; a path is a   *)
(* directory and a file name, each a sequence of name parts.               *)
(***************************************************************************)
InputFiles ==
    { [dirname |-> <<"/in">>, stem |-> "talk", ext |-> ".mp3"],
      [dirname |-> <<"/other">>, stem |-> "talk", ext |-> ".wav"],
      [dirname |-> <<"http://host">>, stem |-> "clip", ext |-> ".mp4"],
      [dirname |-> << >>, stem |-> "notes", ext |-> ""] }

\* wav_name = os.path.basename(input_file)
wav_name(file) == <<file.stem, file.ext>>

\* save_dir = os.path.join(self.tmp_dir, os.path.splitext(wav_name)[0])
save_dir(file) == <<"tmp_dir", file.stem>>

\* Mutant: the chunk file name carries no index.
wav_path_without_index(file, idx) ==
    [dir |-> save_dir(file), name |-> wav_name(file) \o <<".wav">>]

\* wav_path = os.path.join(save_dir, f"{wav_name}_{idx}.wav")
wav_path(file, idx) ==
    [dir |-> save_dir(file), name |-> wav_name(file) \o <<"_", idx, ".wav">>]

\* The files after save_audio_file wrote chunks 0..n-1 in turn: a later
\* write to the same path replaces the earlier one.
WrittenPaths(file, n) == { wav_path(file, i) : i \in 0..(n - 1) }
WrittenData(file, segments, n) ==
    [ p \in WrittenPaths(file, n) |->
        LET last == CHOOSE i \in 0..(n - 1) :
                      /\ wav_path(file, i) = p
                      /\ \A j \in (i + 1)..(n - 1) : wav_path(file, j) # p
        IN  segments[last + 1] ]

InitChunks ==
    /\ WAV_SAMPLE_RATE = 1
    /\ orch \in Orchestrators
    /\ input = "file"
    /\ cleanup_tmp = TRUE
    /\ save_outputs = TRUE
    /\ progress = "None"
    /\ num_threads = 1
    /\ max_duration_seconds = client_max_duration_s
    /\ vad_segment_threshold_s = NoThreshold
    /\ vad_segment_threshold = NoThreshold
    /\ vad_model = "None"
    /\ pc = "create_chunks"
    /\ exc = "none"
    /\ wavLoaded = TRUE
    /\ wavLen \in 0..(MaxChunks * max_samples)
    /\ vadCalls = 1
    /\ vad = VadRaise
    /\ wav_list = FallbackWindows(0, wavLen)
    /\ wav_path_list = << >>
    /\ tmp_save_dir = "None"
    /\ files = {}
    /\ chunksWritten = 0
    /\ dirExists = FALSE
    /\ submitted = 0
    /\ queue = << >>
    /\ running = {}
    /\ finished = {}
    /\ backend = [ i \in AllChunks |-> Pending ]
    /\ calls = [ i \in AllChunks |-> 0 ]
    /\ results = << >>
    /\ languages = << >>
    /\ returned = << >>
    /\ composed = NotComposed
    /\ outputWritten = FALSE
    /\ seconds = NoSeconds
    /\ srt_time = << >>
    /\ composed_again = NotComposed
    /\ input_file \in InputFiles
    /\ chunk_data = << >>
    /\ loop_end = NoPass
    /\ tail_flushed = << >>
    /\ locals = NoLocals
    /\ runs = NoRuns
    /\ tmp_dir = {}

\* _create_tmp_chunks(wav_list, input_file): every chunk is written and the
\* paths are returned, or save_audio_file raises at chunk failAt.
CreateChunks ==
    /\ pc = "create_chunks"
    /\ \E failAt \in 0..ChunkCount :
         /\ files' = WrittenPaths(input_file, failAt)
         /\ chunk_data' = WrittenData(input_file, wav_list, failAt)
         /\ chunksWritten' = failAt
         /\ dirExists' = (failAt > 0)
         /\ IF failAt = ChunkCount
            THEN /\ wav_path_list' = [ k \in 1..ChunkCount |-> wav_path(input_file, k - 1) ]
                 /\ tmp_save_dir' = save_dir(input_file)
                 /\ exc' = exc
                 /\ pc' = "chunks_created"
            ELSE /\ exc' = "OSError"
                 /\ pc' = "chunks_raised"
                 /\ UNCHANGED <<wav_path_list, tmp_save_dir>>
    /\ UNCHANGED <<orch, input, cleanup_tmp, save_outputs, progress, num_threads,
                   max_duration_seconds, vad_segment_threshold_s, vad_segment_threshold,
                   seconds, srt_time, composed_again, input_file, loop_end, tail_flushed,
                   WAV_SAMPLE_RATE, locals, runs, tmp_dir,
                   segmenter_vars, pool_vars, collect_vars, composed, outputWritten>>

NextChunks == CreateChunks

SpecChunks == InitChunks /\ [][NextChunks]_vars

(***************************************************************************)
(* SpecDispatch: _run_parallel_transcription of the long-form classes      *)
(* alone, entered with N chunks of one sample each already on disk, N from *)
(* 0 to MaxChunks, on a pool of 1 to MaxThreads workers.                   *)
(* Fairness: the calling thread keeps running                              *)
(* (Submit, Collect, DispatchReturn), the pool hands a queued work item to *)
(* an idle worker (StartCall), and every backend call that has started     *)
(* returns or raises (FinishCall).                                         *)
(***************************************************************************)
InitDispatch ==
    /\ WAV_SAMPLE_RATE = 1
    /\ orch \in LongForm
    /\ input = "file"
    /\ cleanup_tmp = TRUE
    /\ save_outputs = TRUE
    /\ progress = "callable"
    /\ num_threads \in 1..MaxThreads
    /\ max_duration_seconds = client_max_duration_s
    /\ vad_segment_threshold_s = NoThreshold
    /\ vad_segment_threshold = __init__(orch, max_duration_seconds, vad_segment_threshold_s)
    /\ vad_model = "loaded"
    /\ pc = "dispatch"
    /\ exc = "none"
    /\ wavLoaded = TRUE
    /\ wavLen \in 0..MaxChunks
    /\ vadCalls = 1
    /\ vad = VadList(SplitInto(wavLen, wavLen))
    /\ wav_list = SplitInto(wavLen, wavLen)
    /\ wav_path_list = [ k \in 1..wavLen |-> ChunkPath(k - 1) ]
    /\ tmp_save_dir = "save_dir"
    /\ files = { ChunkPath(i) : i \in 0..(wavLen - 1) }
    /\ chunksWritten = wavLen
    /\ dirExists = (wavLen > 0)
    /\ submitted = 0
    /\ queue = << >>
    /\ running = {}
    /\ finished = {}
    /\ backend = [ i \in AllChunks |-> Pending ]
    /\ calls = [ i \in AllChunks |-> 0 ]
    /\ results = << >>
    /\ languages = << >>
    /\ returned = << >>
    /\ composed = NotComposed
    /\ outputWritten = FALSE
    /\ seconds = NoSeconds
    /\ srt_time = << >>
    /\ composed_again = NotComposed
    /\ input_file = NoInputFile
    /\ chunk_data = << >>
    /\ loop_end = NoPass
    /\ tail_flushed = << >>
    /\ locals = NoLocals
    /\ runs = NoRuns
    /\ tmp_dir = {}

NextDispatch ==
    \/ Submit
    \/ StartCall
    \/ \E idx \in AllChunks : FinishCall(idx)
    \/ \E idx \in AllChunks : Collect(idx)
    \/ DispatchReturn

SpecDispatch ==
    /\ InitDispatch
    /\ [][NextDispatch]_vars
    /\ WF_vars(Submit)
    /\ WF_vars(StartCall)
    /\ \A idx \in AllChunks : WF_vars(FinishCall(idx))
    /\ WF_vars(\E idx \in AllChunks : Collect(idx))
    /\ WF_vars(DispatchReturn)

(***************************************************************************)
(* SpecRuns: MaxRuns calls of transcribe / generate_srt running at the     *)
(* same time on one orchestrator object, hence with one self.tmp_dir.      *)
(* Each run has its own locals (runs[r]); tmp_dir is the set of chunk      *)
(* files on disk.  A run writes its chunks, dispatches them (each backend  *)
(* call opens the chunk file at the path it was given), and executes its   *)
(* finally block.                                                          *)
(***************************************************************************)
RunIds == 1..MaxRuns

\* The locals of a run about to call _create_tmp_chunks: n segments of
\* input_file f, argument cleanup_tmp = c; tmp_save_dir << >> is None.
NewRun(f, n, c) ==
    [pc |-> "materialize", input_file |-> f, n |-> n, cleanup_tmp |-> c,
     wav_path_list |-> << >>, tmp_save_dir |-> << >>, pending |-> {}, unreadable |-> {}]

InitRuns ==
    /\ WAV_SAMPLE_RATE = 1
    /\ orch \in Orchestrators
    /\ input = "file"
    /\ cleanup_tmp = TRUE
    /\ save_outputs = TRUE
    /\ progress = "None"
    /\ num_threads = 1
    /\ max_duration_seconds = client_max_duration_s
    /\ vad_segment_threshold_s = NoThreshold
    /\ vad_segment_threshold = NoThreshold
    /\ vad_model = "None"
    /\ pc = "concurrent"
    /\ exc = "none"
    /\ wavLoaded = FALSE
    /\ wavLen = 0
    /\ vadCalls = 0
    /\ vad = VadNone
    /\ wav_list = << >>
    /\ wav_path_list = << >>
    /\ tmp_save_dir = "None"
    /\ files = {}
    /\ chunksWritten = 0
    /\ dirExists = FALSE
    /\ submitted = 0
    /\ queue = << >>
    /\ running = {}
    /\ finished = {}
    /\ backend = [ i \in AllChunks |-> Pending ]
    /\ calls = [ i \in AllChunks |-> 0 ]
    /\ results = << >>
    /\ languages = << >>
    /\ returned = << >>
    /\ composed = NotComposed
    /\ outputWritten = FALSE
    /\ seconds = NoSeconds
    /\ srt_time = << >>
    /\ composed_again = NotComposed
    /\ input_file = NoInputFile
    /\ chunk_data = << >>
    /\ loop_end = NoPass
    /\ tail_flushed = << >>
    /\ locals = NoLocals
    /\ runs \in [ RunIds -> { NewRun(f, n, c) : f \in InputFiles, n \in 1..MaxRunChunks,
                                                 c \in BOOLEAN } ]
    /\ tmp_dir = {}

runs_rest == <<orch, input, cleanup_tmp, save_outputs, progress, num_threads,
               max_duration_seconds, vad_segment_threshold_s, vad_segment_threshold,
               seconds, srt_time, composed_again, input_file, chunk_data, loop_end,
               tail_flushed, WAV_SAMPLE_RATE, locals, pc, exc, segmenter_vars, chunk_vars,
               pool_vars, collect_vars, composed, outputWritten>>

\* wav_path_list, tmp_save_dir = self._create_tmp_chunks(wav_list, input_file)
RunCreateChunks(r) ==
    /\ runs[r].pc = "materialize"
    /\ tmp_dir' = tmp_dir \cup WrittenPaths(runs[r].input_file, runs[r].n)
    /\ runs' = [runs EXCEPT
                  ![r].wav_path_list = [ k \in 1..runs[r].n |-> wav_path(runs[r].input_file, k - 1) ],
                  ![r].tmp_save_dir = save_dir(runs[r].input_file),
                  ![r].pending = 0..(runs[r].n - 1),
                  ![r].pc = "dispatch"]
    /\ UNCHANGED runs_rest

\* asr_client.transcribe(wav_path, context) in a worker of run r: the call
\* opens the chunk file; when the file is gone the call raises.
RunBackendCall(r, idx) ==
    /\ runs[r].pc = "dispatch"
    /\ idx \in runs[r].pending
    /\ runs' = [runs EXCEPT
                  ![r].pending = @ \ {idx},
                  ![r].unreadable = IF runs[r].wav_path_list[idx + 1] \in tmp_dir
                                    THEN @ ELSE @ \cup {idx}]
    /\ UNCHANGED <<tmp_dir, runs_rest>>

\* _run_parallel_transcription returns; composition and saving follow.
RunDispatchReturn(r) ==
    /\ runs[r].pc = "dispatch"
    /\ runs[r].pending = {}
    /\ runs' = [runs EXCEPT ![r].pc = "finally"]
    /\ UNCHANGED <<tmp_dir, runs_rest>>

\* shutil.rmtree(tmp_save_dir): everything under the directory goes.
rmtree(dir) == { p \in tmp_dir : p.dir # dir }

\* finally: if cleanup_tmp and tmp_save_dir: if os.path.exists(tmp_save_dir):
\* shutil.rmtree(tmp_save_dir)
RunCleanup(r) ==
    /\ runs[r].pc = "finally"
    /\ tmp_dir' = IF runs[r].cleanup_tmp /\ runs[r].tmp_save_dir # << >>
                  THEN rmtree(runs[r].tmp_save_dir)
                  ELSE tmp_dir
    /\ runs' = [runs EXCEPT ![r].pc = "returned"]
    /\ UNCHANGED runs_rest

NextRuns ==
    \/ \E r \in RunIds : RunCreateChunks(r)
    \/ \E r \in RunIds : \E idx \in 0..(MaxRunChunks - 1) : RunBackendCall(r, idx)
    \/ \E r \in RunIds : RunDispatchReturn(r)
    \/ \E r \in RunIds : RunCleanup(r)

SpecRuns == InitRuns /\ [][NextRuns]_vars

(***************************************************************************)
(* SpecTimeline: build_srt_entries on every ordered segment list of at     *)
(* most MaxRegions segments, with or without gaps, inside a stretch of     *)
(* MaxTimelineLen samples that starts at 0 s or just before the first full *)
(* hour, at one and at three samples per second (at three, a sample        *)
(* position is not a whole number of milliseconds).                        *)
(***************************************************************************)
MaxTimelineLen == 7
TimelineRates == {1, 3}
TimelineOffsets == {0, 3599}

InitTimeline ==
    /\ WAV_SAMPLE_RATE \in TimelineRates
    /\ orch = "SubtitleOrchestrator"
    /\ input = "file"
    /\ cleanup_tmp = TRUE
    /\ save_outputs = TRUE
    /\ progress = "None"
    /\ num_threads = 1
    /\ max_duration_seconds = client_max_duration_s
    /\ vad_segment_threshold_s = NoThreshold
    /\ vad_segment_threshold = NoThreshold
    /\ vad_model = "loaded"
    /\ pc = "build_srt"
    /\ exc = "none"
    /\ wavLoaded = TRUE
    /\ wavLen \in { o * WAV_SAMPLE_RATE + MaxTimelineLen : o \in TimelineOffsets }
    /\ vadCalls = 1
    /\ vad = VadNone
    /\ wav_list \in RegionLists(wavLen - MaxTimelineLen, wavLen, MaxRegions)
    /\ wav_path_list = << >>
    /\ tmp_save_dir = "None"
    /\ files = {}
    /\ chunksWritten = 0
    /\ dirExists = FALSE
    /\ submitted = 0
    /\ queue = << >>
    /\ running = {}
    /\ finished = {}
    /\ backend = [ i \in AllChunks |-> Pending ]
    /\ calls = [ i \in AllChunks |-> 0 ]
    /\ results = [ k \in 1..Len(wav_list) |-> <<k - 1, BackendText(k - 1)>> ]
    /\ languages = [ k \in 1..Len(results) |-> SrtLanguageOf(results[k]) ]
    /\ returned = results
    /\ composed = NotComposed
    /\ outputWritten = FALSE
    /\ seconds = NoSeconds
    /\ srt_time = << >>
    /\ composed_again = NotComposed
    /\ input_file = NoInputFile
    /\ chunk_data = << >>
    /\ loop_end = NoPass
    /\ tail_flushed = << >>
    /\ locals = NoLocals
    /\ runs = NoRuns
    /\ tmp_dir = {}

SpecTimeline == InitTimeline /\ [][NextSrt]_vars

(***************************************************************************)
(* SpecExample: _prepare_subtitle_segments at two samples per second, on a *)
(* waveform of ExampleSeconds seconds whose VAD answer is any list of at   *)
(* most ExampleRegions regions that starts at 0 and leaves no gap between  *)
(* regions.                                                                *)
(***************************************************************************)
RECURSIVE ContiguousLists(_, _, _)
ContiguousLists(lo, total, k) ==
    IF k = 0 THEN { << >> }
    ELSE { << >> } \cup
         UNION { { << <<lo, e>> >> \o rest : rest \in ContiguousLists(e, total, k - 1) }
                 : e \in (lo + 1)..total }

InitExample ==
    /\ WAV_SAMPLE_RATE = 2
    /\ orch = "SubtitleOrchestrator"
    /\ input = "file"
    /\ cleanup_tmp = TRUE
    /\ save_outputs = TRUE
    /\ progress = "None"
    /\ num_threads = 1
    /\ max_duration_seconds = client_max_duration_s
    /\ vad_segment_threshold_s = NoThreshold
    /\ vad_segment_threshold = NoThreshold
    /\ vad_model = "loaded"
    /\ pc = "segment"
    /\ exc = "none"
    /\ wavLoaded = TRUE
    /\ wavLen = ExampleSeconds * WAV_SAMPLE_RATE
    /\ vadCalls = 1
    /\ vad \in { VadList(r) : r \in ContiguousLists(0, wavLen, ExampleRegions) }
    /\ wav_list = << >>
    /\ wav_path_list = << >>
    /\ tmp_save_dir = "None"
    /\ files = {}
    /\ chunksWritten = 0
    /\ dirExists = FALSE
    /\ submitted = 0
    /\ queue = << >>
    /\ running = {}
    /\ finished = {}
    /\ backend = [ i \in AllChunks |-> Pending ]
    /\ calls = [ i \in AllChunks |-> 0 ]
    /\ results = << >>
    /\ languages = << >>
    /\ returned = << >>
    /\ composed = NotComposed
    /\ outputWritten = FALSE
    /\ seconds = NoSeconds
    /\ srt_time = << >>
    /\ composed_again = NotComposed
    /\ input_file = NoInputFile
    /\ chunk_data = << >>
    /\ loop_end = NoPass
    /\ tail_flushed = << >>
    /\ locals = NoLocals
    /\ runs = NoRuns
    /\ tmp_dir = {}

SpecExample == InitExample /\ [][NextSeg]_vars

(***************************************************************************)
(* SpecSegSteps: _prepare_subtitle_segments of SpecSeg's inputs executed   *)
(* one loop test at a time.  locals holds the function's local variables:  *)
(* start (cursor of the fallback loop), i (position of the for loop in     *)
(* base_segments), result, buffer_start / buffer_end (-1 is None), cur and *)
(* end (cursor and end of the running flush), ret (where the running       *)
(* flush_buffer call returns to).  The interpreter keeps executing the     *)
(* function, hence the weak fairness of the step relation.                 *)
(***************************************************************************)
\* Mutant: chunk_samples is 0 (a window length of zero seconds).
FallbackWindowEndZeroChunk(start, total_samples) == Min(start + 0, total_samples)

\* end = min(start + chunk_samples, total_samples)
FallbackWindowEnd(start, total_samples) == Min(start + max_samples, total_samples)

\* piece_end = cur + max_samples; cur = piece_end
FlushAdvance(cur) == cur + max_samples

base_segments == IF vad.kind = "raise" THEN << >> ELSE vad.regions

\* load_audio, _load_vad_model, process_vad inside try/except, and the test
\* "if not base_segments".
EnterSegmenter ==
    /\ pc = "segment"
    /\ IF base_segments = << >>
       THEN /\ locals' = [NoLocals EXCEPT !.start = 0]
            /\ pc' = "fallback_loop"
       ELSE /\ locals' = [NoLocals EXCEPT !.i = 1]
            /\ pc' = "main_loop"
    /\ UNCHANGED <<orch, input, cleanup_tmp, save_outputs, progress, num_threads,
                   max_duration_seconds, vad_segment_threshold_s, vad_segment_threshold,
                   seconds, srt_time, composed_again, input_file, chunk_data, loop_end,
                   tail_flushed, WAV_SAMPLE_RATE, runs, tmp_dir, exc, segmenter_vars,
                   chunk_vars, pool_vars, collect_vars, composed, outputWritten>>

\* One test of "while start < total_samples" with the body or the return.
FallbackLoop ==
    /\ pc = "fallback_loop"
    /\ IF locals.start < wavLen
       THEN LET end == FallbackWindowEnd(locals.start, wavLen)
            IN  /\ locals' = [locals EXCEPT
                                !.result = IF end - locals.start > 0
                                           THEN Append(@, <<locals.start, end>>) ELSE @,
                                !.start = end]
                /\ UNCHANGED <<pc, wav_list>>
       ELSE /\ wav_list' = locals.result
            /\ pc' = "segmented"
            /\ UNCHANGED locals
    /\ UNCHANGED <<orch, input, cleanup_tmp, save_outputs, progress, num_threads,
                   max_duration_seconds, vad_segment_threshold_s, vad_segment_threshold,
                   seconds, srt_time, composed_again, input_file, chunk_data, loop_end,
                   tail_flushed, WAV_SAMPLE_RATE, runs, tmp_dir, exc, wavLoaded, wavLen,
                   vadCalls, vad, vad_model, chunk_vars, pool_vars, collect_vars,
                   composed, outputWritten>>

\* One iteration of "for (seg_start, seg_end, _) in base_segments", up to
\* the call of flush_buffer, or the end of the loop.
MainLoop ==
    /\ pc = "main_loop"
    /\ IF locals.i <= Len(base_segments)
       THEN LET seg_start == base_segments[locals.i][1]
                seg_end == base_segments[locals.i][2]
            IN  IF locals.buffer_start = -1
                THEN /\ locals' = [locals EXCEPT !.buffer_start = seg_start,
                                                 !.buffer_end = seg_end, !.i = @ + 1]
                     /\ pc' = pc
                ELSE IF (locals.buffer_end - locals.buffer_start) < min_samples
                     THEN /\ locals' = [locals EXCEPT !.buffer_end = seg_end, !.i = @ + 1]
                          /\ pc' = pc
                     ELSE /\ locals' = [locals EXCEPT !.cur = locals.buffer_start,
                                                      !.end = locals.buffer_end,
                                                      !.ret = "main_loop"]
                          /\ pc' = "flush_loop"
       ELSE /\ pc' = "tail"
            /\ UNCHANGED locals
    /\ UNCHANGED <<orch, input, cleanup_tmp, save_outputs, progress, num_threads,
                   max_duration_seconds, vad_segment_threshold_s, vad_segment_threshold,
                   seconds, srt_time, composed_again, input_file, chunk_data, loop_end,
                   tail_flushed, WAV_SAMPLE_RATE, runs, tmp_dir, exc, segmenter_vars,
                   chunk_vars, pool_vars, collect_vars, composed, outputWritten>>

\* One test of "while (end - cur) > max_samples" inside flush_buffer, with
\* the body, or with the last append and the return to the caller.
FlushLoop ==
    /\ pc = "flush_loop"
    /\ IF (locals.end - locals.cur) > max_samples
       THEN /\ locals' = [locals EXCEPT
                            !.result = Append(@, <<locals.cur, FlushAdvance(locals.cur)>>),
                            !.cur = FlushAdvance(locals.cur)]
            /\ pc' = pc
       ELSE IF locals.ret = "main_loop"
            THEN /\ locals' = [locals EXCEPT
                                 !.result = Append(@, <<locals.cur, locals.end>>),
                                 !.buffer_start = base_segments[locals.i][1],
                                 !.buffer_end = base_segments[locals.i][2],
                                 !.i = @ + 1]
                 /\ pc' = "main_loop"
            ELSE /\ locals' = [locals EXCEPT !.result = Append(@, <<locals.cur, locals.end>>)]
                 /\ pc' = "final"
    /\ UNCHANGED <<orch, input, cleanup_tmp, save_outputs, progress, num_threads,
                   max_duration_seconds, vad_segment_threshold_s, vad_segment_threshold,
                   seconds, srt_time, composed_again, input_file, chunk_data, loop_end,
                   tail_flushed, WAV_SAMPLE_RATE, runs, tmp_dir, exc, segmenter_vars,
                   chunk_vars, pool_vars, collect_vars, composed, outputWritten>>

\* "if buffer_start is not None": the choice of the span of the last flush.
TailStep ==
    /\ pc = "tail"
    /\ IF locals.buffer_start # -1
       THEN /\ IF (locals.buffer_end - locals.buffer_start) < min_samples
                  /\ Len(locals.result) > 0
               THEN locals' = [locals EXCEPT
                                 !.result = SubSeq(@, 1, Len(@) - 1),
                                 !.cur = locals.result[Len(locals.result)][1],
                                 !.end = locals.buffer_end,
                                 !.ret = "final"]
               ELSE locals' = [locals EXCEPT !.cur = locals.buffer_start,
                                             !.end = locals.buffer_end,
                                             !.ret = "final"]
            /\ pc' = "flush_loop"
       ELSE /\ pc' = "final"
            /\ UNCHANGED locals
    /\ UNCHANGED <<orch, input, cleanup_tmp, save_outputs, progress, num_threads,
                   max_duration_seconds, vad_segment_threshold_s, vad_segment_threshold,
                   seconds, srt_time, composed_again, input_file, chunk_data, loop_end,
                   tail_flushed, WAV_SAMPLE_RATE, runs, tmp_dir, exc, segmenter_vars,
                   chunk_vars, pool_vars, collect_vars, composed, outputWritten>>

\* "if len(result) >= 2" and the test of the last piece: result.pop() takes
\* the last piece, whose own start becomes merged_start; or the return.
FinalStep ==
    /\ pc = "final"
    /\ IF Len(locals.result) >= 2
          /\ (locals.result[Len(locals.result)][2]
                - locals.result[Len(locals.result)][1]) < min_samples
       THEN /\ locals' = [locals EXCEPT
                            !.result = SubSeq(@, 1, Len(@) - 1),
                            !.cur = locals.result[Len(locals.result)][1],
                            !.end = locals.result[Len(locals.result)][2]]
            /\ pc' = "final_loop"
            /\ UNCHANGED wav_list
       ELSE /\ wav_list' = locals.result
            /\ pc' = "segmented"
            /\ UNCHANGED locals
    /\ UNCHANGED <<orch, input, cleanup_tmp, save_outputs, progress, num_threads,
                   max_duration_seconds, vad_segment_threshold_s, vad_segment_threshold,
                   seconds, srt_time, composed_again, input_file, chunk_data, loop_end,
                   tail_flushed, WAV_SAMPLE_RATE, runs, tmp_dir, exc, wavLoaded, wavLen,
                   vadCalls, vad, vad_model, chunk_vars, pool_vars, collect_vars,
                   composed, outputWritten>>

\* One test of "while (merged_end - cur) > max_samples" of the final pass,
\* with the body, or with the last append and "return result".
FinalLoop ==
    /\ pc = "final_loop"
    /\ IF (locals.end - locals.cur) > max_samples
       THEN /\ locals' = [locals EXCEPT
                            !.result = Append(@, <<locals.cur, FlushAdvance(locals.cur)>>),
                            !.cur = FlushAdvance(locals.cur)]
            /\ UNCHANGED <<pc, wav_list>>
       ELSE /\ locals' = [locals EXCEPT !.result = Append(@, <<locals.cur, locals.end>>)]
            /\ wav_list' = Append(locals.result, <<locals.cur, locals.end>>)
            /\ pc' = "segmented"
    /\ UNCHANGED <<orch, input, cleanup_tmp, save_outputs, progress, num_threads,
                   max_duration_seconds, vad_segment_threshold_s, vad_segment_threshold,
                   seconds, srt_time, composed_again, input_file, chunk_data, loop_end,
                   tail_flushed, WAV_SAMPLE_RATE, runs, tmp_dir, exc, wavLoaded, wavLen,
                   vadCalls, vad, vad_model, chunk_vars, pool_vars, collect_vars,
                   composed, outputWritten>>

NextSegSteps ==
    \/ EnterSegmenter
    \/ FallbackLoop
    \/ MainLoop
    \/ FlushLoop
    \/ TailStep
    \/ FinalStep
    \/ FinalLoop

SpecSegSteps == InitSeg /\ [][NextSegSteps]_vars /\ WF_vars(NextSegSteps)

(***************************************************************************)
(* Vocabulary of the properties.                                           *)
(***************************************************************************)
\* The text span the dispatcher owes chunk idx, from what the backend did.
OutcomeText(idx) ==
    IF backend[idx].kind = "ok" THEN backend[idx].text ELSE ErrorMarker(backend[idx].text)
OutcomeLanguage(idx) ==
    IF backend[idx].kind = "ok" THEN backend[idx].language ELSE "Unknown"
FailedChunks == { i \in Chunks : backend[i].kind = "raise" }

\* The lists a run hands to the composer when the calls complete in
\* SegmentIndex order.
InOrderResults == [ k \in 1..ChunkCount |-> <<k - 1, OutcomeText(k - 1)>> ]
InOrderLanguages == [ k \in 1..ChunkCount |-> OutcomeLanguage(k - 1) ]

IndexTags(raw) == [ k \in 1..Len(raw) |-> raw[k][1] ]
IsSortedByIdx(raw) == \A k \in 1..(Len(raw) - 1) : raw[k][1] <= raw[k + 1][1]
ReverseOrder(raw) == Len(raw) >= 2 /\ \A k \in 1..(Len(raw) - 1) : raw[k][1] > raw[k + 1][1]

\* The text the dispatcher returned under index tag idx.
ReturnedText(idx) == (CHOOSE k \in 1..Len(returned) : returned[k][1] = idx)
TextOfTag(idx) == returned[ReturnedText(idx)][2]

DispatchReturned == pc = "compose" \/ composed.kind # "none"
RunEnded == pc \in {"returned", "raised"}

(***************************************************************************)
(* C1.  Order preservation: whatever order the backend calls complete in,  *)
(* the long-form full_text is the per-segment texts the dispatcher         *)
(* returned, joined by a single space in ascending SegmentIndex order, and *)
(* the k-th subtitle entry carries the text returned for segment k-1.      *)
(***************************************************************************)
C1_OrderPreserved ==
    composed.kind # "none" =>
        /\ \A i \in Chunks : \E k \in 1..Len(returned) : returned[k][1] = i
        /\ composed.kind = "text" =>
             composed.full_text = Join([ k \in 1..ChunkCount |-> TextOfTag(k - 1) ])
        /\ composed.kind = "srt" =>
             /\ Len(composed.entries) = ChunkCount
             /\ \A k \in 1..ChunkCount : composed.entries[k].text = strip(TextOfTag(k - 1))

\* Three chunks whose calls completed in reverse order, composed.
C1_Witness ==
    /\ composed.kind # "none"
    /\ ChunkCount >= 3
    /\ ReverseOrder(returned)

(***************************************************************************)
(* C2.  The sequence of outcomes _run_parallel_transcription returns is    *)
(* sorted by SegmentIndex at the moment it is handed onward.               *)
(***************************************************************************)
C2_ReturnedSorted == DispatchReturned => IsSortedByIdx(returned)

(***************************************************************************)
(* C3.  Completion order does not leak: the composed result, language      *)
(* included, is the one the run composes when the same backend answers     *)
(* arrive in SegmentIndex order.                                           *)
(***************************************************************************)
C3_NoCompletionOrderLeak ==
    composed.kind # "none" =>
        composed = IF orch = "SubtitleOrchestrator"
                   THEN ComposeSrt(wav_list, InOrderResults, InOrderLanguages)
                   ELSE _compose_results(InOrderResults, InOrderLanguages)

(***************************************************************************)
(* C4.  Fault isolation: with a non-empty set of failed chunks, dispatch   *)
(* raises nothing and is left only by returning all N outcomes, and the    *)
(* long-form full_text is N spans joined by a space: the backend's own     *)
(* text at each position that succeeded and "[ERROR: <message>]" with the  *)
(* chunk's own message at each position that failed.                       *)
(***************************************************************************)
ExpectedSpan(idx) ==
    IF idx \in FailedChunks THEN <<"[ERROR: ">> \o BackendMessage(idx) \o <<"]">>
    ELSE BackendText(idx)

C4_FaultIsolation ==
    FailedChunks # {} =>
        /\ pc = "dispatch" => exc = "none"
        /\ pc # "dispatch" => (DispatchReturned /\ Len(returned) = ChunkCount)
        /\ (orch \in LongForm /\ composed.kind # "none") =>
              composed.full_text = Join([ k \in 1..ChunkCount |-> ExpectedSpan(k - 1) ])

\* A composed long-form run in which some calls failed and some did not.
C4_Witness ==
    /\ orch \in LongForm
    /\ composed.kind = "text"
    /\ FailedChunks # {}
    /\ FailedChunks # Chunks
    /\ pc = "returned"

(***************************************************************************)
(* C5.  The backend is invoked exactly once per chunk: never twice (no     *)
(* retry of a failed chunk), and once dispatch has returned every chunk    *)
(* has been invoked (none skipped because another failed).                 *)
(***************************************************************************)
C5_ExactlyOnce ==
    /\ \A i \in AllChunks : calls[i] <= 1
    /\ DispatchReturned => \A i \in AllChunks : calls[i] = (IF i \in Chunks THEN 1 ELSE 0)

\* Dispatch has returned from a run in which the first chunk's call failed.
C5_Witness ==
    /\ DispatchReturned
    /\ ChunkCount >= 2
    /\ 0 \in FailedChunks

(***************************************************************************)
(* C6.  At every moment at most num_threads backend calls are in flight,   *)
(* and the tasks submitted and not finished are at most the input chunks.  *)
(***************************************************************************)
C6_BoundedPool ==
    /\ Cardinality(running) <= num_threads
    /\ Len(queue) + Cardinality(running) <= ChunkCount

\* The pool is saturated and a submitted task waits.
C6_Witness ==
    /\ Cardinality(running) = num_threads
    /\ queue # << >>

(***************************************************************************)
(* C7.  As stated: for every run in which chunk materialization completed, *)
(* when the run has returned or raised the working directory no longer     *)
(* exists if and only if cleanup_tmp is true, and with cleanup_tmp false   *)
(* the chunk files are all still there.                                    *)
(***************************************************************************)
MaterializationCompleted == tmp_save_dir # "None"
AllChunkFiles == { ChunkPath(i) : i \in Chunks }

C7_Original ==
    (RunEnded /\ MaterializationCompleted) =>
        /\ (~dirExists) <=> cleanup_tmp
        /\ ~cleanup_tmp => files = AllChunkFiles

(***************************************************************************)
(* C7, amended.  The same for every run in which materialization completed *)
(* and wrote at least one chunk file: a run of zero segments never creates *)
(* the directory, whatever cleanup_tmp is.                                 *)
(***************************************************************************)
C7_CleanupIffEnabled ==
    (RunEnded /\ MaterializationCompleted /\ ChunkCount > 0) =>
        /\ (~dirExists) <=> cleanup_tmp
        /\ ~cleanup_tmp => (dirExists /\ files = AllChunkFiles)

\* A run that materialized chunks, raised while writing its output, and
\* cleaned up on the way out.
C7_Witness ==
    /\ pc = "raised"
    /\ exc = "OSError"
    /\ MaterializationCompleted
    /\ ChunkCount > 0
    /\ cleanup_tmp
    /\ ~dirExists

(***************************************************************************)
(* C8.  When materialization raises after writing some chunk files and     *)
(* cleanup is enabled, no chunk file and no working directory remain when  *)
(* the run ends.                                                           *)
(***************************************************************************)
MaterializationRaised == exc = "OSError" /\ ~MaterializationCompleted

C8_PartialChunksRemoved ==
    (RunEnded /\ cleanup_tmp /\ MaterializationRaised /\ chunksWritten > 0) =>
        (files = {} /\ ~dirExists)

(***************************************************************************)
(* C9.  When the input is missing or unreachable the run raises before any *)
(* later stage: no waveform loaded, no VAD call, no chunk file or working  *)
(* directory, no backend call, no output file.                             *)
(***************************************************************************)
C9_FailFast ==
    ~InputUsable(input) =>
        /\ pc \in {"start", "raised"}
        /\ pc = "raised" => exc = "FileNotFoundError"
        /\ ~wavLoaded
        /\ vadCalls = 0
        /\ files = {} /\ ~dirExists /\ tmp_save_dir = "None"
        /\ \A i \in AllChunks : calls[i] = 0
        /\ ~outputWritten

\* The run of a URL answering 404 has raised.
C9_Witness ==
    /\ input = "url_404"
    /\ pc = "raised"
    /\ exc = "FileNotFoundError"

(***************************************************************************)
(* C10.  For every non-empty waveform and every VAD outcome (an exception, *)
(* an empty list, any ordered list of regions) the subtitle segmenter      *)
(* returns segments with end[i] = start[i+1], start[0] = 0 and             *)
(* end[last] = len(waveform).                                              *)
(***************************************************************************)
C10_SubtitleCoverage ==
    (pc = "segmented" /\ wavLen > 0) =>
        (Contiguous(wav_list) /\ Exhaustive(wav_list, wavLen))

(***************************************************************************)
(* C11.  The segment list of the long-form policy is exhaustive in every   *)
(* case: also when the waveform is at or above the cutoff and the VAD      *)
(* returns an empty list, the caller produces segments that start at 0 and *)
(* end at len(waveform), never zero segments.                              *)
(***************************************************************************)
C11_LongFormExhaustive ==
    (orch \in LongForm /\ pc = "segmented") =>
        /\ Len(wav_list) > 0
        /\ Contiguous(wav_list)
        /\ Exhaustive(wav_list, wavLen)

(***************************************************************************)
(* C12.  Every segment the subtitle segmenter returns, on the fallback     *)
(* path and on the refinement path, is non-empty and at most max_s long:   *)
(* 0 < end - start <= int(max_s * WAV_SAMPLE_RATE).  A leading region      *)
(* longer than max_s is cut into pieces of exactly max_s and a non-empty   *)
(* remainder; a buffer that is an exact multiple of max_s yields no empty  *)
(* piece.                                                                  *)
(***************************************************************************)
C12_DurationBounds ==
    (orch = "SubtitleOrchestrator" /\ pc = "segmented") =>
        \A i \in 1..Len(wav_list) :
            /\ 0 < wav_list[i][2] - wav_list[i][1]
            /\ wav_list[i][2] - wav_list[i][1] <= max_samples

\* A single region of twice max_s has been cut into two pieces of max_s.
C12_Witness ==
    /\ pc = "segmented"
    /\ vad = VadList(<< <<0, 2 * max_samples>> >>)
    /\ wav_list = << <<0, max_samples>>, <<max_samples, 2 * max_samples>> >>

\* The VAD answered with a non-empty list: the refinement path was taken.
RefinementPath == vad.kind = "list" /\ vad.regions # << >>

SegLen(seg) == seg[2] - seg[1]

(***************************************************************************)
(* C13.  On the refinement path, for every list of VAD regions each at     *)
(* most max_s long, every interior segment (neither the first nor the      *)
(* last) lasts at least min_s.                                             *)
(***************************************************************************)
C13_InteriorMinimum ==
    (/\ orch = "SubtitleOrchestrator" /\ pc = "segmented"
     /\ RefinementPath
     /\ \A j \in 1..Len(vad.regions) : SegLen(vad.regions[j]) <= max_samples) =>
        \A i \in 2..(Len(wav_list) - 1) : SegLen(wav_list[i]) >= min_samples

(***************************************************************************)
(* C14.  On the refinement path the last returned segment is shorter than  *)
(* min_s only when it is the only segment: with two or more segments the   *)
(* final one lasts at least min_s.                                         *)
(***************************************************************************)
C14_NoShortTail ==
    (/\ orch = "SubtitleOrchestrator" /\ pc = "segmented"
     /\ RefinementPath
     /\ Len(wav_list) >= 2) =>
        SegLen(wav_list[Len(wav_list)]) >= min_samples

(***************************************************************************)
(* C15.  Under the long-form policy no segment handed to the backend is    *)
(* longer than the backend's max_duration_seconds, on the single-segment   *)
(* path of a short input and on the VAD path (the VAD honouring the        *)
(* maximum it is given).                                                   *)
(***************************************************************************)
C15_HardMaxRespected ==
    (orch \in LongForm /\ pc = "segmented") =>
        \A i \in 1..Len(wav_list) :
            SegLen(wav_list[i]) <= max_duration_seconds * WAV_SAMPLE_RATE

(***************************************************************************)
(* C16.  The short-input cutoff of the long-form policy is 180 s whatever  *)
(* the backend's max_duration_seconds is: a waveform shorter than 180 s is *)
(* returned as the one segment (0, len(waveform)) without loading or       *)
(* invoking the VAD, and a waveform of 180 s or more goes through the VAD. *)
(***************************************************************************)
C16_Original ==
    (orch \in LongForm /\ pc \in {"segmented", "segmenter_raised"}) =>
        /\ wavLen < ShortInputCutoff * WAV_SAMPLE_RATE =>
              /\ wav_list = << <<0, wavLen>> >>
              /\ vadCalls = 0
              /\ vad_model = "None"
        /\ wavLen >= ShortInputCutoff * WAV_SAMPLE_RATE => vadCalls = 1

\* The cutoff each class compares the duration with, in seconds.
CutoffOf(o) ==
    IF o = "TranscriptionOrchestrator" THEN max_duration_seconds ELSE ShortInputCutoff

(***************************************************************************)
(* C16, amended.  The cutoff is 180 s in LongAudioTranscriber and the      *)
(* backend's max_duration_seconds in TranscriptionOrchestrator: a waveform *)
(* shorter than the cutoff is returned as the one segment                  *)
(* (0, len(waveform)) without loading or invoking the VAD, and a waveform  *)
(* at or above it goes through the VAD exactly once.                       *)
(***************************************************************************)
C16_CutoffPerClass ==
    (orch \in LongForm /\ pc \in {"segmented", "segmenter_raised"}) =>
        /\ wavLen < CutoffOf(orch) * WAV_SAMPLE_RATE =>
              /\ wav_list = << <<0, wavLen>> >>
              /\ vadCalls = 0
              /\ vad_model = "None"
              /\ pc = "segmented"
        /\ wavLen >= CutoffOf(orch) * WAV_SAMPLE_RATE =>
              /\ vadCalls = 1
              /\ vad_model = "loaded"

\* A 100 s waveform went through the VAD because the backend takes 60 s.
C16_Witness ==
    /\ orch = "TranscriptionOrchestrator"
    /\ pc = "segmented"
    /\ max_duration_seconds = 60
    /\ wavLen = 100 * WAV_SAMPLE_RATE
    /\ vadCalls = 1
    /\ wav_list = << <<0, 60>>, <<60, 100>> >>

(***************************************************************************)
(* C17.  After TranscriptionOrchestrator is constructed the stored target  *)
(* threshold is floor(0.9 * max_duration_seconds) when the caller passed   *)
(* none, max_duration_seconds when the requested value is above it, and    *)
(* the requested value otherwise; so it never exceeds                      *)
(* max_duration_seconds.                                                   *)
(***************************************************************************)
C17_StoredThreshold ==
    (orch = "TranscriptionOrchestrator" /\ pc # "construct") =>
        /\ vad_segment_threshold_s = NoThreshold =>
              /\ 10 * vad_segment_threshold <= 9 * max_duration_seconds
              /\ 9 * max_duration_seconds < 10 * (vad_segment_threshold + 1)
        /\ (vad_segment_threshold_s # NoThreshold
                /\ vad_segment_threshold_s > max_duration_seconds) =>
              vad_segment_threshold = max_duration_seconds
        /\ (vad_segment_threshold_s # NoThreshold
                /\ vad_segment_threshold_s <= max_duration_seconds) =>
              vad_segment_threshold = vad_segment_threshold_s
        /\ vad_segment_threshold <= max_duration_seconds

\* A requested threshold of 250 s was clamped to the backend's 65 s.
C17_Witness ==
    /\ orch = "TranscriptionOrchestrator"
    /\ pc = "constructed"
    /\ vad_segment_threshold_s = 250
    /\ max_duration_seconds = 65
    /\ vad_segment_threshold = 65

(***************************************************************************)
(* C18.  The composed language is the most frequent language tag among all *)
(* outcomes, a tie going to the tag whose first occurrence is earliest in  *)
(* SegmentIndex order; with zero outcomes it is "Unknown".                 *)
(***************************************************************************)
C18_LanguageVote ==
    composed.kind # "none" => composed.language = MostCommon(InOrderLanguages)

(***************************************************************************)
(* C19.  Subtitle composition never fails and emits exactly one entry per  *)
(* segment, in segment order, numbered 1..len(segments), each with the     *)
(* start and end of its own segment's sample range, for any number of      *)
(* outcomes between 0 and len(segments).                                   *)
(***************************************************************************)
C19_OneEntryPerSegment ==
    (orch = "SubtitleOrchestrator" /\ pc = "built") =>
        /\ exc = "none"
        /\ composed.kind = "srt"
        /\ Len(composed.entries) = Len(wav_list)
        /\ \A k \in 1..Len(wav_list) :
              /\ composed.entries[k].index = k
              /\ composed.entries[k].start = format_srt_time(wav_list[k][1], WAV_SAMPLE_RATE)
              /\ composed.entries[k].end = format_srt_time(wav_list[k][2], WAV_SAMPLE_RATE)

\* Three segments were composed with a single outcome.
C19_Witness ==
    /\ pc = "built"
    /\ Len(wav_list) = 3
    /\ Len(returned) = 1
    /\ Len(composed.entries) = 3

\* The positions of raw that carry index tag idx.
TaggedAt(raw, idx) == { j \in 1..Len(raw) : raw[j][1] = idx }

(***************************************************************************)
(* C20.  Subtitle composition pairs each outcome with its originating      *)
(* segment: at every position k the entry's text is the (stripped) text of *)
(* the outcome tagged k when there is one, and the empty string exactly    *)
(* when there is none, whichever indices are missing.                      *)
(***************************************************************************)
C20_PairedByTag ==
    (orch = "SubtitleOrchestrator" /\ pc = "built") =>
        \A k \in 1..Len(wav_list) :
            IF TaggedAt(returned, k - 1) # {}
            THEN /\ composed.entries[k].text # << >>
                 /\ \E j \in TaggedAt(returned, k - 1) :
                       composed.entries[k].text = strip(returned[j][2])
            ELSE composed.entries[k].text = << >>

\* Reading HH:MM:SS,mmm back: the fields between the separators, as numbers.
DigitValue(c) == (CHOOSE d \in 1..10 : DigitChars[d] = c) - 1

RECURSIVE ParseDecimal(_)
ParseDecimal(str) ==
    IF str = << >> THEN 0
    ELSE 10 * ParseDecimal(SubSeq(str, 1, Len(str) - 1)) + DigitValue(str[Len(str)])

FirstAt(str, c, from) == CHOOSE k \in from..Len(str) : str[k] = c /\ \A j \in from..(k - 1) : str[j] # c

ParsedFields(str) ==
    LET c1 == FirstAt(str, ":", 1)
        c2 == FirstAt(str, ":", c1 + 1)
        c3 == FirstAt(str, ",", c2 + 1)
    IN  [hours |-> ParseDecimal(SubSeq(str, 1, c1 - 1)),
         minutes |-> ParseDecimal(SubSeq(str, c1 + 1, c2 - 1)),
         secs |-> ParseDecimal(SubSeq(str, c2 + 1, c3 - 1)),
         millis |-> ParseDecimal(SubSeq(str, c3 + 1, Len(str))),
         widths |-> <<c1 - 1, c2 - c1 - 1, c3 - c2 - 1, Len(str) - c3>>]

ParsedMs(str) ==
    LET f == ParsedFields(str)
    IN  f.hours * 3600000 + f.minutes * 60000 + f.secs * 1000 + f.millis

Abs(x) == IF x < 0 THEN -x ELSE x

(***************************************************************************)
(* C21.  format_srt_time rounds seconds * 1000 to the nearest integer      *)
(* millisecond T and prints HH:MM:SS,mmm with                              *)
(* H*3600000 + M*60000 + S*1000 + mmm = T, M < 60, S < 60, mmm < 1000;     *)
(* the string parsed back is within 1 ms of the input, for every input in  *)
(* [0, 359999.999].                                                        *)
(***************************************************************************)
C21_TimestampRoundTrip ==
    pc = "formatted" =>
        LET f == ParsedFields(srt_time)
            T == ParsedMs(srt_time)
            whole == seconds.sample \div seconds.sample_rate
            rest == seconds.sample % seconds.sample_rate
            \* (T / 1000 - sample / sample_rate) * 1000 * sample_rate
            off == (T - whole * 1000) * seconds.sample_rate - rest * 1000
        IN  /\ f.widths = <<2, 2, 2, 3>>
            /\ f.minutes < 60 /\ f.secs < 60 /\ f.millis < 1000
            /\ 2 * Abs(off) <= seconds.sample_rate
            /\ Abs(off) <= seconds.sample_rate

\* 359999.999 s at 2000 samples per second was printed as 99:59:59,999.
C21_Witness ==
    /\ pc = "formatted"
    /\ seconds = [sample |-> 359999 * 2000 + 1998, sample_rate |-> 2000]
    /\ srt_time = <<"9", "9", ":", "5", "9", ":", "5", "9", ",", "9", "9", "9">>

(***************************************************************************)
(* C22.  Composition is idempotent: the composer (_compose_results or      *)
(* build_srt_entries) called twice in a row on the same outcome and        *)
(* language lists returns identical composed results.                      *)
(***************************************************************************)
C22_IdempotentComposition ==
    pc = "composed_twice" => composed_again = composed

\* Two calls were made on a list the dispatcher had returned out of order.
C22_Witness ==
    /\ pc = "composed_twice"
    /\ Len(returned) >= 2
    /\ ~IsSortedByIdx(returned)
    /\ composed_again.kind # "none"

(***************************************************************************)
(* C23.  No component mutates an earlier component's output: after         *)
(* composition the outcome sequence is still what the dispatcher returned, *)
(* element order and contents, and the segment list is still what the      *)
(* segmenter returned.                                                     *)
(***************************************************************************)
C23_NoMutation ==
    composed.kind # "none" =>
        /\ results = returned
        /\ wav_list = IF orch = "SubtitleOrchestrator"
                      THEN _prepare_subtitle_segments(wavLen, vad)
                      ELSE _prepare_audio_segments(orch, wavLen, vad)

(***************************************************************************)
(* C24.  Materialization returns one chunk path per segment, in segment    *)
(* order: the i-th path holds the i-th segment's samples, is named         *)
(* <originalName>_<i>.wav inside the directory named after the input's     *)
(* base filename, and distinct indices give distinct paths.                *)
(***************************************************************************)
C24_ChunkPerSegment ==
    pc = "chunks_created" =>
        /\ Len(wav_path_list) = Len(wav_list)
        /\ \A k \in 1..Len(wav_list) :
              /\ wav_path_list[k] \in files
              /\ chunk_data[wav_path_list[k]] = wav_list[k]
              /\ wav_path_list[k].dir = <<"tmp_dir", input_file.stem>>
              /\ wav_path_list[k].name = <<input_file.stem, input_file.ext, "_", k - 1, ".wav">>
        /\ \A k, l \in 1..Len(wav_list) : k # l => wav_path_list[k] # wav_path_list[l]

\* Three chunks of talk.mp3 were written.
C24_Witness ==
    /\ pc = "chunks_created"
    /\ input_file.stem = "talk" /\ input_file.ext = ".mp3"
    /\ Len(wav_path_list) = 3
    /\ Cardinality(files) = 3

(***************************************************************************)
(* C25.  The only failures that make transcribe / generate_srt raise are   *)
(* input-not-found and configuration errors; a failure that arises while   *)
(* segments are processed is absorbed and reported inline, so a run whose  *)
(* input and configuration are valid always returns a result.  The        *)
(* exception of the VAD, which the long-form policy lets through by        *)
(* design, is not counted against the claim.                               *)
(***************************************************************************)
C25_OnlyInputErrorsAbort ==
    pc = "raised" => exc \in {"FileNotFoundError", "VadError"}

\* The number of windows of max_samples needed to cover the waveform.
WindowCount == (wavLen + max_samples - 1) \div max_samples

(***************************************************************************)
(* C26.  Under the subtitle policy, when the VAD raises or returns an      *)
(* empty list, the segmenter does not fail: it returns the fixed windows   *)
(* [0, W), [W, 2W), ... over the whole waveform with W = max_s, every      *)
(* window but possibly the last exactly W long and the last ending at      *)
(* len(waveform).                                                          *)
(***************************************************************************)
C26_FallbackWindows ==
    (/\ orch = "SubtitleOrchestrator" /\ pc = "segmented"
     /\ (vad.kind = "raise" \/ vad = VadList(<< >>))) =>
        /\ exc = "none"
        /\ Len(wav_list) = WindowCount
        /\ \A k \in 1..Len(wav_list) :
              /\ wav_list[k][1] = (k - 1) * max_samples
              /\ wav_list[k][2] = Min(k * max_samples, wavLen)

\* The VAD raised on a waveform that needs a shorter last window.
C26_Witness ==
    /\ pc = "segmented"
    /\ vad.kind = "raise"
    /\ wavLen = max_samples + 2
    /\ wav_list = << <<0, max_samples>>, <<max_samples, max_samples + 2>> >>

(***************************************************************************)
(* C27.  Under the long-form policy an exception of the VAD propagates out *)
(* of the run: no chunk is materialized, the backend is never called, no   *)
(* output is written and no working directory is left behind.              *)
(***************************************************************************)
C27_VadErrorPropagates ==
    (orch \in LongForm /\ vad.kind = "raise") =>
        /\ pc \in {"finally", "raised"}
        /\ exc = "VadError"
        /\ files = {} /\ chunksWritten = 0 /\ wav_path_list = << >>
        /\ ~dirExists /\ tmp_save_dir = "None"
        /\ \A i \in AllChunks : calls[i] = 0
        /\ composed = NotComposed
        /\ ~outputWritten

\* A long-form run whose VAD raised has ended by raising.
C27_Witness ==
    /\ orch \in LongForm
    /\ vad.kind = "raise"
    /\ vadCalls = 1
    /\ pc = "raised"
    /\ exc = "VadError"

RECURSIVE TotalLength(_)
TotalLength(segs) ==
    IF segs = << >> THEN 0
    ELSE SegLen(segs[Len(segs)]) + TotalLength(SubSeq(segs, 1, Len(segs) - 1))

(***************************************************************************)
(* C28.  Whenever the VAD regions handed to the subtitle refinement are    *)
(* contiguous and exhaustive, the refined output is contiguous and         *)
(* exhaustive too, its start samples increase strictly, and its durations  *)
(* sum to len(waveform): no region is reordered, no sample dropped or      *)
(* duplicated.                                                             *)
(***************************************************************************)
C28_RefinementKeepsCoverage ==
    (/\ orch = "SubtitleOrchestrator" /\ pc = "segmented"
     /\ RefinementPath
     /\ Contiguous(vad.regions) /\ Exhaustive(vad.regions, wavLen)) =>
        /\ Contiguous(wav_list)
        /\ Exhaustive(wav_list, wavLen)
        /\ \A i \in 1..(Len(wav_list) - 1) : wav_list[i][1] < wav_list[i + 1][1]
        /\ TotalLength(wav_list) = wavLen

\* Three contiguous regions were coalesced, the short tail merged backward.
C28_Witness ==
    /\ pc = "segmented"
    /\ vad = VadList(<< <<0, 1>>, <<1, 4>>, <<4, 5>> >>)
    /\ wav_list = << <<0, 5>> >>

\* The flush-rule split of the span [start, end], stated on its own: pieces
\* of exactly max_samples and a last piece of what remains.
SplitByFlushRule(start, end) ==
    LET n == (end - start + max_samples - 1) \div max_samples
    IN  [ k \in 1..n |-> <<start + (k - 1) * max_samples,
                           Min(start + k * max_samples, end)>> ]

\* The final pass applies: the last piece is short and has a predecessor.
FinalPassApplies ==
    /\ Len(tail_flushed) >= 2
    /\ SegLen(tail_flushed[Len(tail_flushed)]) < min_samples

(***************************************************************************)
(* C29.  Second correction pass: if after the tail flush the last piece is *)
(* shorter than min_s and at least two pieces exist, the returned list is  *)
(* the pre-pass list with its last two pieces replaced by the flush-rule   *)
(* split of the span from the predecessor's start to the last piece's end. *)
(***************************************************************************)
C29_SecondPass ==
    (/\ orch = "SubtitleOrchestrator" /\ pc = "segmented"
     /\ RefinementPath
     /\ FinalPassApplies) =>
        LET n == Len(tail_flushed)
        IN  wav_list = SubSeq(tail_flushed, 1, n - 2)
                          \o SplitByFlushRule(tail_flushed[n - 1][1], tail_flushed[n][2])

\* The tail flush left a short last piece behind a predecessor.
C29_Witness ==
    /\ pc = "segmented"
    /\ vad = VadList(<< <<0, 5>>, <<5, 6>> >>)
    /\ tail_flushed = << <<0, 5>>, <<5, 6>> >>
    /\ wav_list = << <<0, 5>>, <<5, 6>> >>

(***************************************************************************)
(* C30.  Tail flush: when the pass ends with a buffer shorter than min_s   *)
(* and at least one piece was emitted, the last emitted piece is removed   *)
(* and the span from that piece's start to the buffer's end is re-split by *)
(* the flush rule; when the buffer has reached min_s, or nothing was       *)
(* emitted, the buffer alone is split and the earlier pieces stay.         *)
(***************************************************************************)
C30_TailFlush ==
    (orch = "SubtitleOrchestrator" /\ pc = "segmented" /\ RefinementPath) =>
        LET emitted == loop_end.result
            n == Len(emitted)
            short == (loop_end.buffer_end - loop_end.buffer_start) < min_samples
        IN  /\ loop_end.buffer_start # -1
            /\ IF short /\ n >= 1
               THEN tail_flushed = SubSeq(emitted, 1, n - 1)
                                      \o SplitByFlushRule(emitted[n][1], loop_end.buffer_end)
               ELSE tail_flushed = emitted
                                      \o SplitByFlushRule(loop_end.buffer_start,
                                                          loop_end.buffer_end)

\* A one-second tail was merged into the piece emitted before it.
C30_Witness ==
    /\ pc = "segmented"
    /\ loop_end = [result |-> << <<0, 3>> >>, buffer_start |-> 3, buffer_end |-> 4]
    /\ tail_flushed = << <<0, 4>> >>

(***************************************************************************)
(* C31  The subtitle segmenter terminates on every finite waveform and     *)
(* every finite VAD region list: every iteration of the fallback window    *)
(* loop, of the flush loop and of the loop of the final pass moves its     *)
(* cursor forward by a positive number of samples and not beyond the end   *)
(* of the span, which stays fixed, and the function eventually returns.    *)
(***************************************************************************)
LoopIterationAdvances ==
    /\ (pc = "fallback_loop" /\ pc' = "fallback_loop") =>
           /\ locals'.start > locals.start
           /\ locals'.start <= wavLen
           /\ wavLen' = wavLen
    /\ (pc \in {"flush_loop", "final_loop"} /\ pc' = pc) =>
           /\ locals'.cur > locals.cur
           /\ locals'.cur <= locals.end
           /\ locals'.end = locals.end

C31_SegmenterTerminates ==
    /\ [][LoopIterationAdvances]_vars
    /\ <>(pc = "segmented")

\* The three loops have run: a fallback of three windows, or a refinement
\* that flushed inside the for loop and cut a span in the flush loop.
C31_Witness ==
    /\ pc = "segmented"
    /\ \/ vad.kind = "raise" /\ Len(wav_list) = 3
       \/ /\ vad.kind = "list"
          /\ Len(vad.regions) = 3
          /\ Len(wav_list) = 3
          /\ locals.ret = "final"
          /\ wav_list[2][2] - wav_list[2][1] = max_samples

\* The step-by-step execution returns the list the operator
\* _prepare_subtitle_segments computes.
StepwiseAgrees == pc = "segmented" => wav_list = _prepare_subtitle_segments(wavLen, vad)

(***************************************************************************)
(* C32  The example of the subtitle policy: min 2 s, max 5 s, VAD regions  *)
(* (0,1), (1,2.5), (2.5,3), (3,8) seconds.  As claimed: the leading short  *)
(* regions are merged into one piece that starts at 0 s, the region (3,8)  *)
(* is split into two pieces, the first starting at 3 s and the second      *)
(* ending at 8 s, split between 7 s and 8 s, and no piece exceeds 5 s.     *)
(* As the code computes it: the pieces are (0,2.5), (2.5,7.5), (7.5,8);    *)
(* the region (2.5,3) opens the buffer that absorbs (3,8), so no piece     *)
(* starts at 3 s.                                                          *)
(***************************************************************************)
HalfSeconds(h) == (h * WAV_SAMPLE_RATE) \div 2

ExampleVad ==
    VadList(<< <<HalfSeconds(0), HalfSeconds(2)>>, <<HalfSeconds(2), HalfSeconds(5)>>,
               <<HalfSeconds(5), HalfSeconds(6)>>, <<HalfSeconds(6), HalfSeconds(16)>> >>)

ExampleSegmented == pc = "segmented" /\ vad = ExampleVad

C32_Original ==
    ExampleSegmented =>
        /\ wav_list[1][1] = HalfSeconds(0)
        /\ wav_list[1][2] >= HalfSeconds(5)
        /\ \E k \in 1..(Len(wav_list) - 1) :
             /\ wav_list[k][1] = HalfSeconds(6)
             /\ wav_list[k][2] = wav_list[k + 1][1]
             /\ wav_list[k][2] > HalfSeconds(14)
             /\ wav_list[k][2] < HalfSeconds(16)
             /\ wav_list[k + 1][2] = HalfSeconds(16)
        /\ \A k \in 1..Len(wav_list) : SegLen(wav_list[k]) <= max_samples

C32_ExampleAsComputed ==
    ExampleSegmented =>
        wav_list = << <<HalfSeconds(0), HalfSeconds(5)>>, <<HalfSeconds(5), HalfSeconds(15)>>,
                      <<HalfSeconds(15), HalfSeconds(16)>> >>

C32_Witness ==
    /\ ExampleSegmented
    /\ Len(wav_list) = 3
    /\ SegLen(wav_list[2]) = max_samples

(***************************************************************************)
(* C33  When dispatch returns, the outcome list holds exactly one outcome  *)
(* per chunk: its index tags are a permutation of 0..N-1, the outcome of a *)
(* chunk is the backend's text when the call returned and the error marker *)
(* when it raised, never both, and the language list has N entries.  While *)
(* dispatch runs, the outcome list holds outcomes only of the futures the  *)
(* collecting loop has taken from as_completed, one each: a chunk that is  *)
(* queued, in a worker, or done and not yet collected has no outcome.      *)
(***************************************************************************)
TagsOf(raw) == { raw[k][1] : k \in 1..Len(raw) }

C33_OneOutcomePerChunk ==
    /\ DispatchReturned =>
          /\ Len(returned) = ChunkCount
          /\ TagsOf(returned) = Chunks
          /\ \A k \in 1..Len(returned) :
               /\ returned[k][2] = OutcomeText(returned[k][1])
               /\ (returned[k][2] = backend[returned[k][1]].text)
                     # (returned[k][2] = ErrorMarker(backend[returned[k][1]].text))
          /\ Len(languages) = ChunkCount
    /\ pc = "dispatch" =>
          /\ Len(languages) = Len(results)
          /\ Cardinality(TagsOf(results)) = Len(results)
          /\ TagsOf(results) \cap (running \cup finished \cup { queue[k] : k \in 1..Len(queue) }) = {}
          /\ Len(results) + Cardinality(finished) + Cardinality(running) + Len(queue) = submitted
          /\ \A k \in 1..Len(results) : results[k][2] = OutcomeText(results[k][1])

\* Dispatch returned three outcomes out of index order, one of them an
\* error marker and one a backend text.
C33_Witness ==
    /\ pc = "compose"
    /\ ChunkCount = 3
    /\ ~IsSortedByIdx(returned)
    /\ FailedChunks # {}
    /\ FailedChunks # Chunks

(***************************************************************************)
(* C34  If every backend call that starts eventually returns or raises,    *)
(* dispatch eventually returns with all N outcomes, for every N >= 0 and   *)
(* every pool size >= 1, N greater than the pool size included; and every  *)
(* submitted call is eventually started, whether or not calls before it    *)
(* raised.                                                                 *)
(***************************************************************************)
Queued(idx) == \E k \in 1..Len(queue) : queue[k] = idx

C34_DispatchReturns ==
    /\ <>(pc = "compose" /\ Len(returned) = ChunkCount /\ TagsOf(returned) = Chunks)
    /\ \A idx \in AllChunks : Queued(idx) ~> (calls[idx] = 1)

\* Dispatch returned from a run with more chunks than workers whose first
\* call raised.
C34_Witness ==
    /\ pc = "compose"
    /\ Len(returned) = ChunkCount
    /\ ChunkCount > num_threads
    /\ 0 \in FailedChunks
    /\ returned[1][1] = 0

(***************************************************************************)
(* C35  Within one run cleanup comes strictly after dispatch: from the     *)
(* finally block on (where the working directory is deleted) no backend    *)
(* call of the run is queued, in flight or uncollected, and every call in  *)
(* flight finds its chunk file on disk.                                    *)
(***************************************************************************)
C35_CleanupAfterDispatch ==
    /\ pc \in {"compose", "save", "finally", "returned", "raised"} =>
          /\ queue = << >>
          /\ running = {}
          /\ finished = {}
    /\ \A idx \in running : dirExists /\ ChunkPath(idx) \in files
    /\ \A k \in 1..Len(queue) : dirExists /\ ChunkPath(queue[k]) \in files

\* A run of three chunks, all called, has ended with its working directory
\* deleted by the finally block.
C35_Witness ==
    /\ RunEnded
    /\ cleanup_tmp
    /\ tmp_save_dir # "None"
    /\ ~dirExists
    /\ files = {}
    /\ ChunkCount = 3
    /\ \A idx \in Chunks : calls[idx] = 1

(***************************************************************************)
(* C36  Runs are isolated in their working directories: when two runs      *)
(* execute at the same time on one orchestrator, inputs with the same base *)
(* file name included, every chunk file a run has written and not yet      *)
(* handed to its backend call is on disk: no cleanup of another run has    *)
(* deleted it.                                                             *)
(***************************************************************************)
C36_RunsIsolated ==
    \A r \in RunIds :
        runs[r].pc = "dispatch" =>
            \A idx \in runs[r].pending : runs[r].wav_path_list[idx + 1] \in tmp_dir

(***************************************************************************)
(* C37  The progress reporter is optional in both orchestrators: a run of  *)
(* TranscriptionOrchestrator.transcribe or SubtitleOrchestrator            *)
(* .generate_srt on a usable input with progress = None gets past its      *)
(* first progress report into the segmenter (the audio is loaded) and      *)
(* never ends with the TypeError of calling None.                          *)
(***************************************************************************)
C37_ProgressOptional ==
    (progress = "None" /\ _validate_input(input) = "ok") =>
        /\ exc # "TypeError"
        /\ pc \in {"materialize", "dispatch", "compose", "save", "finally", "returned", "raised"}
              => wavLoaded

(***************************************************************************)
(* C38  A failed segment votes "Unknown": the language list has one vote   *)
(* per chunk, as many "Unknown" votes as chunks whose call raised, and the *)
(* composed language is "Unknown" whenever the failed chunks outnumber the *)
(* chunks of every single language the backend reported, also when some    *)
(* chunks were transcribed.                                                *)
(***************************************************************************)
ChunksIn(language) ==
    { i \in Chunks : backend[i].kind = "ok" /\ backend[i].language = language }

C38_UnknownVote ==
    composed.kind # "none" =>
        /\ Len(languages) = ChunkCount
        /\ CountOf("Unknown", languages) = Cardinality(FailedChunks)
        /\ (\A l \in Languages : Cardinality(FailedChunks) > Cardinality(ChunksIn(l)))
              => composed.language = "Unknown"

\* Two of three calls raised, one returned a text, and the composed
\* language is "Unknown".
C38_Witness ==
    /\ composed.kind # "none"
    /\ ChunkCount = 3
    /\ Cardinality(FailedChunks) = 2
    /\ composed.language = "Unknown"

(***************************************************************************)
(* C39  For contiguous segments the subtitle timeline is gap-free and      *)
(* monotone: every entry's start is not after its end, read as times; the  *)
(* end timestamp string of each entry is the start timestamp string of the *)
(* next; and neither starts nor ends decrease from one entry to the next.  *)
(***************************************************************************)
\* The string HH:MM:SS,mmm of an entry's timestamp, and its time in ms.
TimestampString(t) ==
    Pad(t.hours, 2) \o <<":">> \o Pad(t.minutes, 2) \o <<":">> \o Pad(t.secs, 2)
        \o <<",">> \o Pad(t.millis, 3)
TimestampMs(t) == ParsedMs(TimestampString(t))

C39_GapFreeTimeline ==
    (pc = "built" /\ Contiguous(wav_list)) =>
        LET e == composed.entries
        IN  /\ Len(e) = Len(wav_list)
            /\ \A k \in 1..Len(e) : TimestampMs(e[k].start) <= TimestampMs(e[k].end)
            /\ \A k \in 1..(Len(e) - 1) :
                 /\ TimestampString(e[k].end) = TimestampString(e[k + 1].start)
                 /\ TimestampMs(e[k].start) <= TimestampMs(e[k + 1].start)
                 /\ TimestampMs(e[k].end) <= TimestampMs(e[k + 1].end)

\* Three contiguous segments at three samples per second that run over the
\* first full hour, with a boundary that is no whole number of milliseconds.
C39_Witness ==
    /\ pc = "built"
    /\ WAV_SAMPLE_RATE = 3
    /\ Contiguous(wav_list)
    /\ Len(wav_list) = 3
    /\ wav_list[1][2] % WAV_SAMPLE_RATE = 1
    /\ composed.entries[1].start.hours = 0
    /\ composed.entries[3].end.hours = 1

====
